---- MODULE Spec2Model ----
(***************************************************************************)
(* A model of the trading core of the repository: the RiskManager          *)
(* (src/src/risk_manager.py) as callers can drive it, and the orchestrator *)
(* PolymarketArbBot (src/src/main.py) driving it through one scan cycle    *)
(* after the other, with the exchange (src/src/trading.py) as environment. *)
(*                                                                         *)
(* Money is counted in whole units; the limits of Settings are read from   *)
(* the environment (src/src/config.py), and the model runs a small         *)
(* configuration of them.                                                  *)
(***************************************************************************)
EXTENDS Integers, Sequences, FiniteSets, TLC

---------------------------------------------------------------------------
\* Settings (src/src/config.py): MAX_DAILY_LOSS, MAX_SINGLE_BET,
\* MAX_POSITION_SIZE, in units.
max_daily_loss == 2
max_single_bet == 2
max_position_size == 3
\* COOLDOWN_SECONDS, SIM_BALANCE, PURE_ARB_ORDER_SIZE, TEMPORAL_ARB_ORDER_SIZE
cooldown_seconds == 2
sim_balance_start == 4
pure_arb_order_size == 2
temporal_arb_order_size == 3
\* TARGET_PAIR_COST and TEMPORAL_ARB_PRICE_THRESHOLD, in price ticks of which
\* one_dollar make the 1.00 a winning share pays; TEMPORAL_ARB_ENABLED;
\* TEMPORAL_ARB_CONFIDENCE_THRESHOLD, in percent.
one_dollar == 4
target_pair_cost == 3
temporal_arb_price_threshold == 2
temporal_arb_enabled == TRUE
temporal_arb_confidence_threshold == 70
\* Sizes are counted in units of the 1e-9 that compute_buy_fill and
\* wait_for_terminal_order tolerate a filled size to fall short by.
fill_tolerance == 1
\* BinancePriceFeed's history_seconds and the maxlen of its deque.
history_seconds == 1
kept_trades == 100
hourly_window == 1
deque_maxlen == 3
\* wait_for_terminal_order's timeout_seconds and poll_interval_seconds
\* (src/src/trading.py), in seconds.
timeout_seconds == 3
poll_interval_seconds == 1

\* Bounds of the model.
MaxCost == 3       \* trade costs range over 0..MaxCost
MaxDay == 2        \* local days 1..MaxDay
MaxTrades == 1     \* TradeRecords kept in RiskManager._trades
MaxPnl == 3        \* |daily_pnl| stays within MaxPnl
MaxTime == 4       \* the clock runs cooldown_seconds..cooldown_seconds+MaxTime
MaxBotTrades == 2  \* trades the orchestrator records before it stops scanning
MaxBid == 1        \* best bids range over 1..MaxBid
MaxLatency == 1    \* seconds a get_order call takes, 0..MaxLatency
MaxFilled == 2     \* filled sizes an order reports, 0..MaxFilled
MaxLevels == 3     \* ask levels of a list handed to compute_buy_fill
MaxTarget == 3     \* target sizes handed to compute_buy_fill, 0..MaxTarget
MaxBookLevels == 2 \* ask levels of an order book handed to a detector
MaxSnaps == 3      \* price snapshots in the feed's history
MaxTick == 1       \* readings of the clock during one fusion, 0..MaxTick
MaxHistory == 2    \* max_history of a SpendTracker, 0..MaxHistory
MaxRecords == 4    \* record calls made on one SpendTracker
MaxAmount == 2     \* amounts and revenues of an AgentTx
MaxSettles == 2    \* successful settle calls made on one SpendTracker
MaxLimit == 2      \* max_amount of a BudgetRule, 1..MaxLimit
MaxTxs == 3        \* transactions handed to BudgetManager.on_tx
MaxCycles == 3     \* passes of the main loop of run
MaxEpochs == 2     \* markets run loads one after the other
MaxInbox == 2      \* stream messages waiting for the ingestion task
MaxLines == 4      \* lines of a SpendTracker's file

Costs == 0..MaxCost
\* (won, pnl) pairs handed to record_settlement
Settlements == {<<TRUE, 1>>, <<FALSE, -1>>}

Max(a, b) == IF a >= b THEN a ELSE b

VARIABLES
    rm,        \* the RiskManager's fields
    today,     \* date.today(), as a day number
    ret,       \* the last call made on the RiskManager and what it returned
    dry_run,   \* Settings.dry_run
    now,       \* time.time()
    bot,       \* PolymarketArbBot: its fields and its place in scan_once
    legs,      \* the two orders of the running execute_pure_arbitrage
    cycle,     \* what became of the opportunities of the running scan_once
    wait,      \* a running wait_for_terminal_order
    call,      \* a call of a detector, of compute_buy_fill or of the feed
    price_feed, \* BinancePriceFeed: its window and its streaming loop
    store,     \* data/risk_state.json, the file save_state writes
    loop,      \* PolymarketArbBot.run: where its main loop stands
    tracker,   \* a SpendTracker's fields and what its listeners received
    budget     \* a BudgetManager's fields

vars ==
    <<rm, today, ret, dry_run, now, bot, legs, cycle, wait, call, price_feed,
      store, loop, tracker, budget>>
botVars == <<dry_run, now, bot, legs, cycle>>
auxVars == <<price_feed, store, loop, tracker, budget>>
libVars == <<wait, call, auxVars>>

\* Python's None, among sizes, prices and times (which are never negative)
\* and where a call or a summary is missing.
None == -1

---------------------------------------------------------------------------
\* RiskManager

\* TradeRecord: cost, status and actual_pnl are what the RiskManager reads
\* and writes; strategy tells the two strategies apart.
TradeRecord(strategy, cost) ==
    [strategy |-> strategy, cost |-> cost, status |-> "open", actual_pnl |-> 0]

\* RiskManager.__init__: the date "" is day 0, the reason "" is <<>>.
RiskManagerInit ==
    [trades |-> <<>>,
     current_exposure |-> 0,
     daily_pnl |-> 0,
     daily_pnl_date |-> 0,
     halted |-> FALSE,
     halt_reason |-> <<>>]

\* The lazy day reset of daily_pnl, check_can_trade and record_settlement.
LazyDayReset_KeepsPnl(r, day) ==
    IF r.daily_pnl_date # day THEN [r EXCEPT !.daily_pnl_date = day] ELSE r
LazyDayReset_ClearsHalt(r, day) ==
    IF r.daily_pnl_date # day
    THEN [r EXCEPT !.daily_pnl = 0, !.daily_pnl_date = day,
                   !.halted = FALSE, !.halt_reason = <<>>]
    ELSE r
LazyDayReset(r, day) ==
    IF r.daily_pnl_date # day
    THEN [r EXCEPT !.daily_pnl = 0, !.daily_pnl_date = day]
    ELSE r

\* The property daily_pnl: the value it returns on `day`.
daily_pnl(r, day) == LazyDayReset(r, day).daily_pnl

\* if self._daily_pnl < -self.max_daily_loss
DailyLossBreached_AtOrBelow(r) == r.daily_pnl <= -max_daily_loss
DailyLossBreached(r) == r.daily_pnl < -max_daily_loss

\* if trade_cost > self.max_single_bet
ExceedsSingleBet(trade_cost) == trade_cost > max_single_bet

\* if self._current_exposure + trade_cost > self.max_position_size
ExceedsPosition_Never(r, trade_cost) == FALSE
ExceedsPosition_AtEquality(r, trade_cost) ==
    r.current_exposure + trade_cost >= max_position_size
ExceedsPosition(r, trade_cost) ==
    r.current_exposure + trade_cost > max_position_size

\* return False, f"Trading halted: {self._halt_reason}"
HaltedRefusal_NoReason(r) ==
    [rm |-> r, ok |-> FALSE, reason |-> <<"Trading halted", <<>>>>]
HaltedRefusal(r) ==
    [rm |-> r, ok |-> FALSE, reason |-> <<"Trading halted", r.halt_reason>>]

\* The refusals for the single-bet and the position-size limit.
LimitRefusal_Reserving(r, kind, trade_cost) ==
    [rm |-> [r EXCEPT !.current_exposure = @ + trade_cost],
     ok |-> FALSE, reason |-> <<kind, trade_cost>>]
LimitRefusal(r, kind, trade_cost) ==
    [rm |-> r, ok |-> FALSE, reason |-> <<kind, trade_cost>>]

\* return True, "OK"
Authorized_Reserving(r, trade_cost) ==
    [rm |-> [r EXCEPT !.current_exposure = @ + trade_cost],
     ok |-> TRUE, reason |-> <<"OK">>]
Authorized(r, trade_cost) == [rm |-> r, ok |-> TRUE, reason |-> <<"OK">>]

\* check_can_trade: the RiskManager after the call, the decision, the reason.
check_can_trade(r, day, trade_cost) ==
    IF r.halted THEN HaltedRefusal(r)
    ELSE LET r1 == LazyDayReset(r, day) IN
         IF DailyLossBreached(r1)
         THEN LET why == <<"Daily loss limit reached", r1.daily_pnl>> IN
              [rm |-> [r1 EXCEPT !.halted = TRUE, !.halt_reason = why],
               ok |-> FALSE, reason |-> why]
         ELSE IF ExceedsSingleBet(trade_cost)
         THEN LimitRefusal(r1, "exceeds max single bet", trade_cost)
         ELSE IF ExceedsPosition(r1, trade_cost)
         THEN LimitRefusal(r1, "Would exceed max position", trade_cost)
         ELSE Authorized(r1, trade_cost)

\* record_trade (the daily statistics are not part of the model)
record_trade(r, trade) ==
    [r EXCEPT !.trades = Append(@, trade),
              !.current_exposure = @ + trade.cost]

\* self._current_exposure = max(0, self._current_exposure - trade.cost)
SettledExposure_NoFloor(exposure, cost) == exposure - cost
SettledExposure(exposure, cost) == Max(0, exposure - cost)

\* The TradeRecord after record_settlement.
SettledTrade(trade, won, pnl) ==
    [trade EXCEPT !.status = IF won THEN "won" ELSE "lost", !.actual_pnl = pnl]

\* record_settlement on the RiskManager's own fields.
SettleRisk(r, day, cost, pnl) ==
    LET r1 == [r EXCEPT !.current_exposure = SettledExposure(@, cost)]
        r2 == LazyDayReset(r1, day)
    IN  [r2 EXCEPT !.daily_pnl = @ + pnl]

\* record_settlement of the trade at index i of _trades.
record_settlement(r, day, i, won, pnl) ==
    LET r1 == SettleRisk(r, day, r.trades[i].cost, pnl)
    IN  [r1 EXCEPT !.trades[i] = SettledTrade(@, won, pnl)]

\* reset_daily
reset_daily(r, day) ==
    [r EXCEPT !.daily_pnl = 0, !.daily_pnl_date = day,
              !.halted = FALSE, !.halt_reason = <<>>]

---------------------------------------------------------------------------
\* The RiskManager driven by any caller.

\* A call and what it returned: (ok, reason) of check_can_trade, the value of
\* the property daily_pnl; for record_settlement, `ok` is the argument `won`.
Call(op, ok, reason) ==
    [op |-> op, ok |-> ok, reason |-> reason]

NoCall == Call("none", TRUE, <<>>)

RiskInit ==
    /\ rm = RiskManagerInit
    /\ today = 1
    /\ ret = NoCall

CheckCanTrade(c) ==
    LET res == check_can_trade(rm, today, c) IN
    /\ rm' = res.rm
    /\ ret' = Call("check_can_trade", res.ok, res.reason)
    /\ UNCHANGED today

RecordTrade(c) ==
    /\ Len(rm.trades) < MaxTrades
    /\ rm' = record_trade(rm, TradeRecord("any", c))
    /\ ret' = Call("record_trade", TRUE, <<>>)
    /\ UNCHANGED today

\* Settling a trade of _trades, open or already settled.
RecordSettlement(i, s) ==
    /\ i \in 1..Len(rm.trades)
    /\ daily_pnl(rm, today) + s[2] \in -MaxPnl..MaxPnl
    /\ rm' = record_settlement(rm, today, i, s[1], s[2])
    /\ ret' = Call("record_settlement", s[1],
                   <<"listed", rm.trades[i].status>>)
    /\ UNCHANGED today

\* Settling a TradeRecord that was never handed to record_trade.
RecordSettlementUnopened(c, s) ==
    /\ daily_pnl(rm, today) + s[2] \in -MaxPnl..MaxPnl
    /\ rm' = SettleRisk(rm, today, c, s[2])
    /\ ret' = Call("record_settlement", s[1], <<"unlisted">>)
    /\ UNCHANGED today

ReadDailyPnl ==
    /\ rm' = LazyDayReset(rm, today)
    /\ ret' = Call("daily_pnl", TRUE, <<daily_pnl(rm, today)>>)
    /\ UNCHANGED today

ResetDaily ==
    /\ rm' = reset_daily(rm, today)
    /\ ret' = Call("reset_daily", TRUE, <<>>)
    /\ UNCHANGED today

\* Local midnight passes.
DayRollover ==
    /\ today < MaxDay
    /\ today' = today + 1
    /\ ret' = Call("day_rollover", TRUE, <<>>)
    /\ UNCHANGED rm

RiskNext ==
    \/ \E c \in Costs : CheckCanTrade(c)
    \/ \E c \in Costs : RecordTrade(c)
    \/ \E i \in 1..MaxTrades, s \in Settlements : RecordSettlement(i, s)
    \/ \E c \in Costs, s \in Settlements : RecordSettlementUnopened(c, s)
    \/ ReadDailyPnl
    \/ ResetDaily
    \/ DayRollover

Next == RiskNext /\ UNCHANGED botVars /\ UNCHANGED libVars

---------------------------------------------------------------------------
\* PolymarketArbBot: scan_once and the two execute_ functions, one step per
\* call on a collaborator. The detectors' results are inputs here: an
\* opportunity carries its total_investment, expected_payout and order_size.

NoOpp == [strategy |-> "none", total_investment |-> 0, expected_payout |-> 0,
          order_size |-> 0]

\* check_pure_arbitrage returns an opportunity only with total_cost below
\* 1.00 a share, so expected_payout exceeds total_investment.
PureOpps ==
    {[strategy |-> "pure_arb", total_investment |-> c,
      expected_payout |-> c + 1, order_size |-> pure_arb_order_size] :
        c \in 1..MaxCost}

TemporalOpps ==
    {[strategy |-> "temporal_arb", total_investment |-> c,
      expected_payout |-> c + 1, order_size |-> temporal_arb_order_size] :
        c \in 1..MaxCost}

expected_profit(opp) == opp.expected_payout - opp.total_investment

\* What the running execute_ call learnt from check_can_trade.
NoAuth == [cost |-> -1, ok |-> FALSE]

\* One leg of the pair: whether the exchange accepted the order, whether an
\* order id was extracted, whether wait_for_terminal_order polled it and
\* reported it filled, whether cancel_orders was called with it, how many
\* cancel_orders calls carried it and whether the call raised, whether the
\* unwind loop fetched its book, the best bid get_order_book returned for
\* the unwind (0: none), the unwind order handed to place_order (<<>>:
\* none) and whether place_order raised.
NoLeg == [accepted |-> FALSE, id |-> FALSE, polled |-> FALSE,
          filled |-> FALSE, cancel_sent |-> FALSE, cancels |-> 0,
          cancel_raised |-> FALSE, book_fetched |-> FALSE, best_bid |-> 0,
          unwind |-> <<>>, unwind_raised |-> FALSE]

NoLegs == [up |-> NoLeg, down |-> NoLeg]

TokenOf(leg) == IF leg = "up" THEN "yes_token_id" ELSE "no_token_id"

\* scan_once's result: per strategy "none" (no opportunity), "found",
\* "cooldown" (skipped by the cooldown test), "refused" (by the risk check)
\* or "executed"; and whether a trade was submitted since _last_trade_ts
\* was last set.
NoCycle == [pure |-> "none", temporal |-> "none", submitted |-> FALSE]

\* No library call is running.
AuxIdle ==
    /\ price_feed = None
    /\ store = None
    /\ loop = None
    /\ tracker = None
    /\ budget = None

LibIdle == wait = None /\ call = None /\ AuxIdle

BotInit ==
    /\ cycle = NoCycle
    /\ now = cooldown_seconds
    /\ bot = [pc |-> "idle", last_trade_ts |-> 0,
              sim_balance |-> sim_balance_start, trades_executed |-> 0,
              pure |-> NoOpp, temporal |-> NoOpp, auth |-> NoAuth]
    /\ legs = NoLegs

Init == RiskInit /\ BotInit /\ dry_run = TRUE /\ LibIdle

Spec == Init /\ [][Next]_vars

Quiet == ret' = NoCall /\ UNCHANGED <<rm, today>>

\* (now - self._last_trade_ts) < self.settings.cooldown_seconds
CooldownActive_Never(last_trade_ts) == FALSE
CooldownActive(last_trade_ts) == (now - last_trade_ts) < cooldown_seconds

\* if not can_trade: return
RiskRefused_Ignored(res) == FALSE
RiskRefused(res) == ~res.ok

\* Where scan_once goes on after execute_pure_arbitrage.
AfterPure_SkipsTemporal == "idle"
AfterPure == IF bot.temporal # NoOpp THEN "temporal_start" ELSE "idle"

\* scan_once up to the detectors; run() skips the scan while halted.
ScanOnce(p, t) ==
    /\ bot.pc = "idle"
    /\ ~rm.halted
    /\ Len(rm.trades) < MaxBotTrades
    /\ bot' = [bot EXCEPT !.pure = p, !.temporal = t,
                          !.pc = IF p # NoOpp THEN "pure_start"
                                 ELSE IF t # NoOpp THEN "temporal_start"
                                 ELSE "idle"]
    /\ Quiet
    /\ UNCHANGED <<dry_run, now, legs>>

\* execute_pure_arbitrage: the cooldown test.
PureCooldown ==
    /\ bot.pc = "pure_start"
    /\ bot' = IF CooldownActive(bot.last_trade_ts)
              THEN [bot EXCEPT !.pc = "pure_done", !.auth = NoAuth]
              ELSE [bot EXCEPT !.pc = "pure_risk", !.auth = NoAuth,
                               !.last_trade_ts = now]
    /\ legs' = NoLegs
    /\ Quiet
    /\ UNCHANGED <<dry_run, now>>

\* execute_pure_arbitrage: the risk check.
PureRiskCheck ==
    /\ bot.pc = "pure_risk"
    /\ LET res == check_can_trade(rm, today, bot.pure.total_investment) IN
       /\ rm' = res.rm
       /\ ret' = Call("check_can_trade", res.ok, res.reason)
       /\ bot' = [bot EXCEPT
                    !.auth = [cost |-> bot.pure.total_investment,
                              ok |-> res.ok],
                    !.pc = IF RiskRefused(res) THEN "pure_done"
                           ELSE IF dry_run THEN "pure_sim"
                           ELSE "pure_place"]
    /\ UNCHANGED <<today, dry_run, now, legs>>

\* Simulation: the balance test, the balance update and record_trade.
PureSimRecord ==
    /\ bot.pc = "pure_sim"
    /\ IF bot.sim_balance < bot.pure.total_investment
       THEN /\ bot' = [bot EXCEPT !.pc = "pure_done"]
            /\ Quiet
       ELSE /\ bot' = [bot EXCEPT
                         !.sim_balance = @ - bot.pure.total_investment
                                           + bot.pure.expected_payout,
                         !.pc = "pure_sim_settle"]
            /\ rm' = record_trade(rm,
                        TradeRecord("pure_arb", bot.pure.total_investment))
            /\ ret' = Call("record_trade", TRUE, <<>>)
            /\ UNCHANGED today
    /\ UNCHANGED <<dry_run, now, legs>>

\* Simulation: record_settlement(trade, won=True, pnl=expected_profit).
PureSimSettle ==
    /\ bot.pc = "pure_sim_settle"
    /\ rm' = record_settlement(rm, today, Len(rm.trades), TRUE,
                               expected_profit(bot.pure))
    /\ ret' = Call("record_settlement", TRUE, <<"listed", "open">>)
    /\ bot' = [bot EXCEPT !.trades_executed = @ + 1, !.pc = "pure_done"]
    /\ UNCHANGED <<today, dry_run, now, legs>>

\* Live: place_orders_fast raises before any order is posted.
PurePlaceRaises ==
    /\ bot.pc = "pure_place"
    /\ bot' = [bot EXCEPT !.pc = "pure_done"]
    /\ Quiet
    /\ UNCHANGED <<dry_run, now, legs>>

\* if not order_ids[0] or not order_ids[1]: raise RuntimeError
MissingOrderId(up, down) == ~up \/ ~down

\* Live: place_orders_fast posts the two orders; each result carries an
\* order id (the exchange accepted the order) or an error.
PurePlace(up, down) ==
    /\ bot.pc = "pure_place"
    /\ legs' = [up |-> [NoLeg EXCEPT !.accepted = up, !.id = up],
                down |-> [NoLeg EXCEPT !.accepted = down, !.id = down]]
    /\ bot' = [bot EXCEPT !.pc = IF MissingOrderId(up, down)
                                 THEN "pure_done" ELSE "pure_wait_up"]
    /\ Quiet
    /\ UNCHANGED <<dry_run, now>>

\* Live: wait_for_terminal_order on one leg, with what it reports.
PureWait(leg, filled) ==
    /\ bot.pc = IF leg = "up" THEN "pure_wait_up" ELSE "pure_wait_down"
    /\ legs' = [legs EXCEPT ![leg].polled = TRUE, ![leg].filled = filled]
    /\ bot' = [bot EXCEPT !.pc = IF leg = "up" THEN "pure_wait_down"
                                 ELSE IF legs.up.filled /\ filled
                                 THEN "pure_record"
                                 ELSE "pure_cancel"]
    /\ Quiet
    /\ UNCHANGED <<dry_run, now>>

\* Live: both legs filled, record_trade.
PureLiveRecord ==
    /\ bot.pc = "pure_record"
    /\ rm' = record_trade(rm,
                TradeRecord("pure_arb", bot.pure.total_investment))
    /\ ret' = Call("record_trade", TRUE, <<>>)
    /\ bot' = [bot EXCEPT !.trades_executed = @ + 1, !.pc = "pure_done"]
    /\ UNCHANGED <<today, dry_run, now, legs>>

\* try: cancel_orders(...) except Exception: pass
AfterCancel_Aborts(raises) == IF raises THEN "pure_done" ELSE "pure_unwind_up"
AfterCancel(raises) == "pure_unwind_up"

\* Live: one cancel_orders call with every order id; it may raise (the
\* client cannot be built, the exchange refuses), which is swallowed.
PureCancel(raises) ==
    /\ bot.pc = "pure_cancel"
    /\ legs' = [l \in {"up", "down"} |->
                  [legs[l] EXCEPT
                     !.cancel_sent = legs[l].id,
                     !.cancels = IF legs[l].id THEN @ + 1 ELSE @,
                     !.cancel_raised = legs[l].id /\ raises]]
    /\ bot' = [bot EXCEPT !.pc = AfterCancel(raises)]
    /\ Quiet
    /\ UNCHANGED <<dry_run, now>>

\* if best_bid: place_order(side="SELL", ..., price=best_bid, tif="FAK")
UnwindOrder(leg, best_bid, size) ==
    IF best_bid # 0
    THEN <<"SELL", TokenOf(leg), best_bid, size, "FAK">>
    ELSE <<>>

\* Live: the unwind loop's pass over one leg. get_order_book answers with a
\* best bid, or with none (an empty bid side, or {} when the fetch fails);
\* place_order may raise, which ends execute_pure_arbitrage.
PureUnwind(leg, best_bid, raises) ==
    /\ bot.pc = IF leg = "up" THEN "pure_unwind_up" ELSE "pure_unwind_down"
    /\ LET next == IF leg = "up" THEN "pure_unwind_down" ELSE "pure_done" IN
       IF ~legs[leg].filled
       THEN /\ best_bid = 0 /\ ~raises
            /\ bot' = [bot EXCEPT !.pc = next]
            /\ UNCHANGED legs
       ELSE IF raises
       THEN /\ best_bid # 0
            /\ legs' = [legs EXCEPT
                          ![leg].book_fetched = TRUE,
                          ![leg].best_bid = best_bid,
                          ![leg].unwind =
                              UnwindOrder(leg, best_bid, bot.pure.order_size),
                          ![leg].unwind_raised = TRUE]
            /\ bot' = [bot EXCEPT !.pc = "pure_done"]
       ELSE /\ legs' = [legs EXCEPT
                          ![leg].book_fetched = TRUE,
                          ![leg].best_bid = best_bid,
                          ![leg].unwind =
                              UnwindOrder(leg, best_bid, bot.pure.order_size)]
            /\ bot' = [bot EXCEPT !.pc = next]
    /\ Quiet
    /\ UNCHANGED <<dry_run, now>>

\* execute_pure_arbitrage returns to scan_once; its locals are gone.
PureReturn ==
    /\ bot.pc = "pure_done"
    /\ bot' = [bot EXCEPT !.pc = AfterPure, !.pure = NoOpp, !.auth = NoAuth]
    /\ legs' = NoLegs
    /\ Quiet
    /\ UNCHANGED <<dry_run, now>>

\* execute_temporal_arbitrage: the cooldown test.
TemporalCooldown ==
    /\ bot.pc = "temporal_start"
    /\ bot' = IF CooldownActive(bot.last_trade_ts)
              THEN [bot EXCEPT !.pc = "temporal_done", !.auth = NoAuth]
              ELSE [bot EXCEPT !.pc = "temporal_risk", !.auth = NoAuth,
                               !.last_trade_ts = now]
    /\ Quiet
    /\ UNCHANGED <<dry_run, now, legs>>

\* execute_temporal_arbitrage: the risk check.
TemporalRiskCheck ==
    /\ bot.pc = "temporal_risk"
    /\ LET res == check_can_trade(rm, today, bot.temporal.total_investment) IN
       /\ rm' = res.rm
       /\ ret' = Call("check_can_trade", res.ok, res.reason)
       /\ bot' = [bot EXCEPT
                    !.auth = [cost |-> bot.temporal.total_investment,
                              ok |-> res.ok],
                    !.pc = IF RiskRefused(res) THEN "temporal_done"
                           ELSE IF dry_run THEN "temporal_sim"
                           ELSE "temporal_place"]
    /\ UNCHANGED <<today, dry_run, now, legs>>

\* Simulation: the balance test, the balance update and record_trade; the
\* trade stays open.
TemporalSimRecord ==
    /\ bot.pc = "temporal_sim"
    /\ IF bot.sim_balance < bot.temporal.total_investment
       THEN /\ bot' = [bot EXCEPT !.pc = "temporal_done"]
            /\ Quiet
       ELSE /\ bot' = [bot EXCEPT
                         !.sim_balance = @ - bot.temporal.total_investment,
                         !.trades_executed = @ + 1,
                         !.pc = "temporal_done"]
            /\ rm' = record_trade(rm,
                        TradeRecord("temporal_arb",
                                    bot.temporal.total_investment))
            /\ ret' = Call("record_trade", TRUE, <<>>)
            /\ UNCHANGED today
    /\ UNCHANGED <<dry_run, now, legs>>

\* Live: place_order and extract_order_id; without an order id (or when
\* place_order raises) the function returns.
TemporalPlace(id) ==
    /\ bot.pc = "temporal_place"
    /\ bot' = [bot EXCEPT !.pc = IF id THEN "temporal_wait"
                                 ELSE "temporal_done"]
    /\ Quiet
    /\ UNCHANGED <<dry_run, now, legs>>

\* Live: wait_for_terminal_order, then record_trade if it reports a fill.
TemporalWait(filled) ==
    /\ bot.pc = "temporal_wait"
    /\ IF filled
       THEN /\ rm' = record_trade(rm,
                        TradeRecord("temporal_arb",
                                    bot.temporal.total_investment))
            /\ ret' = Call("record_trade", TRUE, <<>>)
            /\ bot' = [bot EXCEPT !.trades_executed = @ + 1,
                                  !.pc = "temporal_done"]
            /\ UNCHANGED today
       ELSE /\ bot' = [bot EXCEPT !.pc = "temporal_done"]
            /\ Quiet
    /\ UNCHANGED <<dry_run, now, legs>>

\* execute_temporal_arbitrage returns; scan_once returns and run() sleeps.
TemporalReturn ==
    /\ bot.pc = "temporal_done"
    /\ bot' = [bot EXCEPT !.pc = "idle", !.temporal = NoOpp, !.auth = NoAuth]
    /\ Quiet
    /\ UNCHANGED <<dry_run, now, legs>>

\* A second passes.
Tick ==
    /\ now < cooldown_seconds + MaxTime
    /\ now' = now + 1
    /\ Quiet
    /\ UNCHANGED <<dry_run, bot, legs>>

BotNext ==
    \/ \E p \in PureOpps \cup {NoOpp}, t \in TemporalOpps \cup {NoOpp} :
          ScanOnce(p, t)
    \/ PureCooldown
    \/ PureRiskCheck
    \/ PureSimRecord
    \/ PureSimSettle
    \/ PurePlaceRaises
    \/ \E up \in BOOLEAN, down \in BOOLEAN : PurePlace(up, down)
    \/ \E leg \in {"up", "down"}, filled \in BOOLEAN : PureWait(leg, filled)
    \/ PureLiveRecord
    \/ \E raises \in BOOLEAN : PureCancel(raises)
    \/ \E leg \in {"up", "down"}, b \in 0..MaxBid, raises \in BOOLEAN :
          PureUnwind(leg, b, raises)
    \/ PureReturn
    \/ TemporalCooldown
    \/ TemporalRiskCheck
    \/ TemporalSimRecord
    \/ \E id \in BOOLEAN : TemporalPlace(id)
    \/ \E filled \in BOOLEAN : TemporalWait(filled)
    \/ TemporalReturn
    \/ Tick
    \/ DayRollover /\ UNCHANGED <<dry_run, now, bot, legs>>

\* The step submits a trade: the simulated execution, or orders the
\* exchange took.
Submits ==
    \/ bot.pc \in {"pure_sim", "temporal_sim"}
          /\ Len(rm'.trades) > Len(rm.trades)
    \/ bot.pc = "pure_place"
          /\ (legs'.up.accepted \/ legs'.down.accepted)
    \/ bot.pc = "temporal_place" /\ bot'.pc = "temporal_wait"

\* What scan_once's cycle has come to, read off the step just taken.
CycleLog ==
    LET outcome ==
            IF bot'.pc = "idle" THEN NoCycle
            ELSE IF bot.pc = "idle"
            THEN [cycle EXCEPT
                    !.pure = IF bot'.pure # NoOpp THEN "found" ELSE "none",
                    !.temporal = IF bot'.temporal # NoOpp THEN "found"
                                 ELSE "none"]
            ELSE IF bot.pc = "pure_start" /\ bot'.pc = "pure_done"
            THEN [cycle EXCEPT !.pure = "cooldown"]
            ELSE IF bot.pc = "pure_risk" /\ bot'.pc = "pure_done"
            THEN [cycle EXCEPT !.pure = "refused"]
            ELSE IF bot.pc = "temporal_start" /\ bot'.pc = "temporal_done"
            THEN [cycle EXCEPT !.temporal = "cooldown"]
            ELSE IF bot.pc = "temporal_risk" /\ bot'.pc = "temporal_done"
            THEN [cycle EXCEPT !.temporal = "refused"]
            ELSE IF bot'.trades_executed > bot.trades_executed
            THEN IF bot.pc \in {"pure_sim_settle", "pure_record"}
                 THEN [cycle EXCEPT !.pure = "executed"]
                 ELSE [cycle EXCEPT !.temporal = "executed"]
            ELSE cycle
    IN  cycle' = [outcome EXCEPT
                    !.submitted =
                        IF bot'.last_trade_ts # bot.last_trade_ts THEN FALSE
                        ELSE IF Submits THEN TRUE
                        ELSE cycle.submitted]

BotStep == BotNext /\ CycleLog /\ UNCHANGED libVars

InitBot == RiskInit /\ BotInit /\ dry_run \in BOOLEAN /\ LibIdle

SpecBot == InitBot /\ [][BotStep]_vars

---------------------------------------------------------------------------
\* wait_for_terminal_order (src/src/trading.py): one step per pass of the
\* polling loop, with the exchange's answers as environment.

terminal_statuses == {"filled", "canceled", "cancelled", "rejected", "expired"}

\* Status strings an order carries, as the exchange spells them.
RawStatuses == {"FILLED", "filled", "CANCELED", "LIVE", ""}

\* str(...).lower()
Lower(status) ==
    CASE status = "FILLED" -> "filled"
      [] status = "CANCELED" -> "canceled"
      [] status = "LIVE" -> "live"
      [] OTHER -> status

\* The keys the filled size is looked up under, in the order of the lookup.
SizeKeys == <<"filled_size", "filledSize", "size_filled", "matched_size">>

\* What an order holds under a size key: nothing, a value float() rejects,
\* or a size.
Absent == -1
Bad == -2
SizeValues == {Absent, Bad} \cup 0..MaxFilled

\* The orders get_order answers with: a status and at most two size keys.
Orders ==
    {[status |-> st, sizes |-> sz] :
        st \in RawStatuses,
        sz \in {f \in [1..Len(SizeKeys) -> SizeValues] :
                  Cardinality({i \in 1..Len(SizeKeys) : f[i] # Absent}) <= 2}}

\* The first size key the order has decides: its value, or None when
\* float() rejects it; None when the order has none of the keys.
filled_size(od) ==
    LET present == {i \in 1..Len(SizeKeys) : od.sizes[i] # Absent} IN
    IF present = {} THEN None
    ELSE LET first == CHOOSE i \in present : \A j \in present : i <= j IN
         IF od.sizes[first] = Bad THEN None ELSE od.sizes[first]

\* Python's truth value of an Optional[float].
Truthy(x) == x # None /\ x # 0

\* if requested_size and filled_size and filled_size + 1e-9 >= requested_size
SizeFilled_Never(requested_size, size) == FALSE
SizeFilled(requested_size, size) ==
    /\ Truthy(requested_size)
    /\ Truthy(size)
    /\ size + fill_tolerance >= requested_size

\* The sizes wait_for_terminal_order is called with: opp["order_size"], or
\* the default of the parameter.
RequestedSizes == {None, pure_arb_order_size, temporal_arb_order_size}

\* last_summary = None
NoSummary == [status |-> "unset", filled_size |-> None]

WaitStart(requested_size) ==
    [pc |-> "polling", exit |-> "", requested_size |-> requested_size,
     elapsed |-> 0, polls |-> 0, last_summary |-> NoSummary]

\* last_summary.setdefault("filled", False), with the default summary when
\* no poll was made.
WithFilledDefault(summary) ==
    IF summary = NoSummary
    THEN [status |-> "None", filled_size |-> None, filled |-> FALSE]
    ELSE IF "filled" \in DOMAIN summary THEN summary
    ELSE [status |-> summary.status, filled_size |-> summary.filled_size,
          filled |-> FALSE]

\* One pass of the loop in which get_order answers with od after `latency`
\* seconds.
poll_once(w, od, latency) ==
    LET status == Lower(od.status)
        size == filled_size(od)
        polled == [w EXCEPT !.polls = @ + 1]
    IN  IF SizeFilled(w.requested_size, size)
        THEN [polled EXCEPT
                !.pc = "returned", !.exit = "size",
                !.last_summary = [status |-> status, filled_size |-> size,
                                  filled |-> TRUE]]
        ELSE IF status \in terminal_statuses
        THEN [polled EXCEPT
                !.pc = "returned", !.exit = "status",
                !.last_summary = [status |-> status, filled_size |-> size,
                                  filled |-> status = "filled"]]
        ELSE [polled EXCEPT
                !.elapsed = @ + latency + poll_interval_seconds,
                !.last_summary = [status |-> status, filled_size |-> size]]

\* while (time.monotonic() - start) < timeout_seconds
InBudget(w) == w.pc = "polling" /\ w.elapsed < timeout_seconds

WaitFrame == UNCHANGED <<rm, today, ret, botVars, call, auxVars>>

Poll(od, latency) ==
    /\ InBudget(wait)
    /\ wait' = poll_once(wait, od, latency)
    /\ WaitFrame

\* get_order raises: the summary says "error" and the loop goes on.
PollRaises(latency) ==
    /\ InBudget(wait)
    /\ wait' = [wait EXCEPT
                  !.polls = @ + 1,
                  !.elapsed = @ + latency + poll_interval_seconds,
                  !.last_summary = [status |-> "error", filled_size |-> None]]
    /\ WaitFrame

\* The budget is spent: the last summary is returned.
WaitTimeout ==
    /\ wait.pc = "polling"
    /\ ~InBudget(wait)
    /\ wait' = [wait EXCEPT
                  !.pc = "returned", !.exit = "timeout",
                  !.last_summary = WithFilledDefault(wait.last_summary)]
    /\ WaitFrame

WaitNext ==
    \/ \E od \in Orders, latency \in 0..MaxLatency : Poll(od, latency)
    \/ \E latency \in 0..MaxLatency : PollRaises(latency)
    \/ WaitTimeout

InitWait ==
    /\ RiskInit /\ BotInit /\ dry_run = TRUE
    /\ call = None /\ AuxIdle
    /\ \E requested_size \in RequestedSizes : wait = WaitStart(requested_size)

SpecWait == InitWait /\ [][WaitNext]_vars

---------------------------------------------------------------------------
\* compute_buy_fill (src/src/trading.py) and the two detectors
\* (src/src/main.py), each applied to the arguments `call` was set up with.

\* Ask prices lie strictly between 0 and 1.00; get_order_book keeps the
\* levels of positive size.
AskPrices == 1..(one_dollar - 1)
LevelSizes == 1..(temporal_arb_order_size - 1)
Levels == AskPrices \X LevelSizes

\* The lists of at most n (price, size) levels, in any order.
AskLists(n) == UNION {[1..k -> Levels] : k \in 0..n}

Min(a, b) == IF a <= b THEN a ELSE b

\* sorted(asks, key=lambda x: x[0]): by price, levels of one price in the
\* order they came in.
RECURSIVE sorted_asks(_)
sorted_asks(asks) ==
    IF asks = <<>> THEN <<>>
    ELSE LET level == asks[Len(asks)]
             front == sorted_asks(SubSeq(asks, 1, Len(asks) - 1))
             k == Cardinality({i \in 1..Len(front) : front[i][1] <= level[1]})
         IN  SubSeq(front, 1, k) \o <<level>>
                 \o SubSeq(front, k + 1, Len(front))

\* The loop over the sorted levels, from level i on.
RECURSIVE FillLoop(_, _, _, _)
FillLoop(levels, i, target_size, acc) ==
    IF i > Len(levels) \/ acc.filled >= target_size THEN acc
    ELSE LET price == levels[i][1]
             take == Min(levels[i][2], target_size - acc.filled)
         IN  FillLoop(levels, i + 1, target_size,
                      [filled |-> acc.filled + take,
                       cost |-> acc.cost + take * price,
                       worst |-> price])

\* compute_buy_fill returns None.
NoFill == [filled |-> 0, vwap |-> None, worst |-> None, best |-> None,
           cost |-> 0]

\* if filled + 1e-9 < target_size: return None
Shortfall_Never(filled, target_size) == FALSE
Shortfall(filled, target_size) == filled + fill_tolerance < target_size

\* vwap is the quotient cost / filled, kept as the pair.
compute_buy_fill(asks, target_size) ==
    IF target_size <= 0 \/ asks = <<>> THEN NoFill
    ELSE LET levels == sorted_asks(asks)
             acc == FillLoop(levels, 1, target_size,
                             [filled |-> 0, cost |-> 0, worst |-> None])
         IN  IF Shortfall(acc.filled, target_size) THEN NoFill
             ELSE [filled |-> acc.filled,
                   vwap |-> IF acc.filled > 0 THEN <<acc.cost, acc.filled>>
                            ELSE None,
                   worst |-> acc.worst,
                   best |-> levels[1][1],
                   cost |-> acc.cost]

\* The order book get_order_book returns for a list of asks: best_ask is the
\* lowest ask price, None without asks.
Book(asks) ==
    [asks |-> asks,
     best_ask |-> IF asks = <<>> THEN None
                  ELSE CHOOSE p \in {asks[i][1] : i \in 1..Len(asks)} :
                          \A i \in 1..Len(asks) : p <= asks[i][1]]

\* if not fill: return None
FillAbsent_Ignored(fill) == FALSE
FillAbsent(fill) == fill = NoFill

\* if total_cost <= self.settings.target_pair_cost
WithinPairCost_Strict(total_cost) == total_cost < target_pair_cost
WithinPairCost(total_cost) == total_cost <= target_pair_cost

check_pure_arbitrage(up_book, down_book) ==
    LET fill_up == compute_buy_fill(up_book.asks, pure_arb_order_size)
        fill_down == compute_buy_fill(down_book.asks, pure_arb_order_size)
        total_cost == fill_up.worst + fill_down.worst
        size == pure_arb_order_size
    IN  IF FillAbsent(fill_up) \/ FillAbsent(fill_down) THEN NoOpp
        ELSE IF fill_up.worst = None \/ fill_down.worst = None THEN NoOpp
        ELSE IF WithinPairCost(total_cost)
        THEN [strategy |-> "pure_arb",
              price_up |-> fill_up.worst,
              price_down |-> fill_down.worst,
              total_cost |-> total_cost,
              profit_per_share |-> one_dollar - total_cost,
              order_size |-> size,
              total_investment |-> total_cost * size,
              expected_payout |-> one_dollar * size,
              expected_profit |-> one_dollar * size - total_cost * size,
              vwap_up |-> fill_up.vwap,
              vwap_down |-> fill_down.vwap]
        ELSE NoOpp

\* momentum is None.
NoSignal == [direction |-> "none", confidence |-> 0]

\* if best_ask > self.settings.temporal_arb_price_threshold: return None
AlreadyRepriced_Never(best_ask) == FALSE
AlreadyRepriced(best_ask) == best_ask > temporal_arb_price_threshold

check_temporal_arbitrage(up_book, down_book, momentum) ==
    IF ~temporal_arb_enabled THEN NoOpp
    ELSE IF momentum = NoSignal THEN NoOpp
    ELSE IF momentum.confidence < temporal_arb_confidence_threshold
    THEN NoOpp
    ELSE LET up == momentum.direction = "UP"
             target_token == IF up THEN "yes_token_id" ELSE "no_token_id"
             target_book == IF up THEN up_book ELSE down_book
             side_name == IF up THEN "UP" ELSE "DOWN"
             fill == compute_buy_fill(target_book.asks,
                                      temporal_arb_order_size)
             size == temporal_arb_order_size
         IN  IF target_book.best_ask = None THEN NoOpp
             ELSE IF AlreadyRepriced(target_book.best_ask) THEN NoOpp
             ELSE IF FillAbsent(fill) THEN NoOpp
             ELSE [strategy |-> "temporal_arb",
                   direction |-> side_name,
                   token_id |-> target_token,
                   price |-> fill.worst,
                   vwap |-> fill.vwap,
                   order_size |-> size,
                   total_investment |-> fill.cost,
                   expected_payout |-> size * one_dollar,
                   expected_profit |-> size * one_dollar - fill.cost,
                   confidence |-> momentum.confidence]

\* The fused signals a detector is handed: none, or a direction with a
\* confidence below, at or above the threshold.
Momenta ==
    {NoSignal} \cup
    {[direction |-> d, confidence |-> c] :
        d \in {"UP", "DOWN"},
        c \in {temporal_arb_confidence_threshold - 5,
               temporal_arb_confidence_threshold, 95}}

---------------------------------------------------------------------------
\* BinancePriceFeed (src/src/cex_price_feed.py): get_momentum,
\* get_window_momentum and get_multi_timeframe_signal.

\* BTC prices; no two of them are a threshold of a confidence table apart.
Prices == {9940, 10000, 10012}

\* How long before the fusion a snapshot was recorded, in seconds: now, and
\* one age inside each of the 15 s, 30 s and 60 s lookbacks and one outside.
Ages == {0, 10, 25, 50, 70}

Snapshots == [price : Prices, age : Ages]

\* The history _record_price builds: oldest snapshot first.
Histories ==
    {h \in UNION {[1..k -> Snapshots] : k \in 0..MaxSnaps} :
        \A i \in 1..(Len(h) - 1) : h[i].age > h[i + 1].age}

\* int(elapsed) of the window signal: the window began 15 s ago, or long ago.
WindowElapsed == {15, 200}

\* The readings of time.time() taken by get_momentum(15), get_momentum(30),
\* get_momentum(60), get_window_momentum and the fused signal, in ticks of
\* the clock: a later reading is never below an earlier one.
ClockReadings ==
    {c \in [1..5 -> 0..MaxTick] : \A i \in 1..4 : c[i] <= c[i + 1]}

\* The feed after its history was recorded: _current_price is the price of
\* the newest snapshot, None before the first one.
Feed(prices, window_start_price, elapsed) ==
    [prices |-> prices,
     current_price |-> IF prices = <<>> THEN None
                       ELSE prices[Len(prices)].price,
     window_start_price |-> window_start_price,
     window_elapsed |-> elapsed]

\* ((current - reference) / reference) * 100, in thousandths of a percent.
Abs(x) == IF x < 0 THEN 0 - x ELSE x

change_pct(current, reference) ==
    LET magnitude == (Abs(current - reference) * 100000) \div reference
    IN  IF current >= reference THEN magnitude ELSE 0 - magnitude

\* The two confidence tables, in percent.
momentum_confidence(abs_change) ==
    IF abs_change >= 500 THEN 95
    ELSE IF abs_change >= 300 THEN 85
    ELSE IF abs_change >= 150 THEN 75
    ELSE IF abs_change >= 80 THEN 65
    ELSE IF abs_change >= 50 THEN 55
    ELSE 45

window_confidence(abs_change) ==
    IF abs_change >= 400 THEN 95
    ELSE IF abs_change >= 250 THEN 90
    ELSE IF abs_change >= 150 THEN 80
    ELSE IF abs_change >= 100 THEN 70
    ELSE IF abs_change >= 50 THEN 60
    ELSE 50

MomentumSignal(direction, confidence, price_change_pct, current_price, reference_price, window_seconds, timestamp) ==
    [direction |-> direction,
     confidence |-> confidence,
     price_change_pct |-> price_change_pct,
     current_price |-> current_price,
     reference_price |-> reference_price,
     window_seconds |-> window_seconds,
     timestamp |-> timestamp]

\* snap.timestamp >= now - lookback_seconds
InLookback(snap, lookback_seconds) == snap.age <= lookback_seconds

get_momentum(feed, lookback_seconds, clock) ==
    IF feed.prices = <<>> \/ feed.current_price = None THEN NoSignal
    ELSE LET inside == {i \in 1..Len(feed.prices) :
                           InLookback(feed.prices[i], lookback_seconds)}
         IN  IF inside = {} THEN NoSignal
             ELSE LET first == CHOOSE i \in inside : \A j \in inside : i <= j
                      reference_price == feed.prices[first].price
                      change == change_pct(feed.current_price,
                                           reference_price)
                  IN  IF reference_price = 0 THEN NoSignal
                      ELSE IF Abs(change) < 10 THEN NoSignal
                      ELSE MomentumSignal(
                               IF change > 0 THEN "UP" ELSE "DOWN",
                               momentum_confidence(Abs(change)),
                               change,
                               feed.current_price,
                               reference_price,
                               lookback_seconds,
                               clock)

get_window_momentum(feed, clock) ==
    IF \/ feed.window_start_price = None
       \/ feed.current_price = None
       \/ feed.window_start_price = 0
    THEN NoSignal
    ELSE LET change == change_pct(feed.current_price,
                                  feed.window_start_price)
         IN  IF Abs(change) < 5 THEN NoSignal
             ELSE MomentumSignal(
                      IF change > 0 THEN "UP" ELSE "DOWN",
                      window_confidence(Abs(change)),
                      change,
                      feed.current_price,
                      feed.window_start_price,
                      feed.window_elapsed,
                      clock)

Present(sig) == sig # NoSignal

\* signals, as get_multi_timeframe_signal collects them.
Signals(feed, clocks) ==
    LET lookbacks == <<get_momentum(feed, 15, clocks[1]),
                       get_momentum(feed, 30, clocks[2]),
                       get_momentum(feed, 60, clocks[3])>>
        window_sig == get_window_momentum(feed, clocks[4])
    IN  SelectSeq(lookbacks, Present)
            \o (IF Present(window_sig) THEN <<window_sig>> ELSE <<>>)

\* if len(directions) > 1: return None
Conflicting_Never(directions) == FALSE
Conflicting(directions) == Cardinality(directions) > 1

\* The weight of signals[i], doubled: 1.0 + i * 0.5 counting from 0, and 3.0
\* for a signal equal to window_sig.
Weight(i, sig, window_sig) ==
    IF sig = window_sig THEN 6 ELSE 2 + (i - 1)

RECURSIVE WeightedSum(_, _, _)
WeightedSum(signals, window_sig, n) ==
    IF n = 0 THEN <<0, 0>>
    ELSE LET rest == WeightedSum(signals, window_sig, n - 1)
             weight == Weight(n, signals[n], window_sig)
         IN  <<rest[1] + signals[n].confidence * weight, rest[2] + weight>>

\* The fused confidence is the quotient weighted_conf / total_weight, kept
\* as the pair.
get_multi_timeframe_signal(feed, clocks) ==
    LET signals == Signals(feed, clocks)
        window_sig == get_window_momentum(feed, clocks[4])
        directions == {signals[i].direction : i \in 1..Len(signals)}
    IN  IF signals = <<>> THEN NoSignal
        ELSE IF Conflicting(directions) THEN NoSignal
        ELSE LET best == IF Present(window_sig) THEN window_sig
                         ELSE signals[Len(signals)]
             IN  MomentumSignal(
                     CHOOSE d \in directions : TRUE,
                     WeightedSum(signals, window_sig, Len(signals)),
                     best.price_change_pct,
                     best.current_price,
                     best.reference_price,
                     best.window_seconds,
                     clocks[5])

\* The call has not returned.
Pending == [pending |-> TRUE]

ACall(fn, args) == [fn |-> fn, args |-> args, result |-> Pending]

\* The arguments a call is set up with.
FillCall ==
    \E asks \in AskLists(MaxLevels), target_size \in 0..MaxTarget :
        call = ACall("compute_buy_fill", <<asks, target_size>>)

PureCall ==
    \E up \in AskLists(MaxBookLevels), down \in AskLists(MaxBookLevels) :
        call = ACall("check_pure_arbitrage", <<Book(up), Book(down)>>)

\* The book of the side the signal does not point to is not read; it is drawn
\* from the books of at most one level.
TemporalCall ==
    \E m \in Momenta :
        \E up \in AskLists(IF m.direction = "UP" THEN MaxBookLevels ELSE 1),
           down \in AskLists(IF m.direction = "DOWN" THEN MaxBookLevels
                             ELSE 1) :
            call = ACall("check_temporal_arbitrage",
                         <<Book(up), Book(down), m>>)

FeedCall ==
    \E prices \in Histories, start \in {None} \cup Prices,
       elapsed \in WindowElapsed, clocks \in ClockReadings :
        call = ACall("get_multi_timeframe_signal",
                     <<Feed(prices, start, elapsed), clocks>>)

LibFrame == UNCHANGED <<rm, today, ret, botVars, wait, auxVars>>

Returns(fn, result) ==
    /\ call.fn = fn
    /\ call.result = Pending
    /\ call' = [call EXCEPT !.result = result]
    /\ LibFrame

ComputeBuyFill ==
    Returns("compute_buy_fill",
            compute_buy_fill(call.args[1], call.args[2]))

CheckPureArbitrage ==
    Returns("check_pure_arbitrage",
            check_pure_arbitrage(call.args[1], call.args[2]))

CheckTemporalArbitrage ==
    Returns("check_temporal_arbitrage",
            check_temporal_arbitrage(call.args[1], call.args[2],
                                     call.args[3]))

GetMultiTimeframeSignal ==
    Returns("get_multi_timeframe_signal",
            get_multi_timeframe_signal(call.args[1], call.args[2]))

LibNext ==
    \/ ComputeBuyFill
    \/ CheckPureArbitrage
    \/ CheckTemporalArbitrage
    \/ GetMultiTimeframeSignal

InitLib ==
    /\ RiskInit /\ BotInit /\ dry_run = TRUE
    /\ wait = None /\ AuxIdle
    /\ (FillCall \/ PureCall \/ TemporalCall \/ FeedCall)

SpecLib == InitLib /\ [][LibNext]_vars

---------------------------------------------------------------------------
\* BinancePriceFeed (src/src/cex_price_feed.py): _record_price, and
\* start_websocket one step per await.  The clock is `now`.

\* if price > 0: the payloads of a TEXT message that reach this test, 0 for
\* a trade without a price.
Payloads == Prices \cup {0}

\* _ws_task is set to None by __init__ and assigned nowhere else: run()
\* keeps the task of start_websocket in a local of its own.  inbox holds
\* the messages the socket has that `async for` has not yet handed over.
FeedInit ==
    [prices |-> <<>>, current_price |-> None, last_update |-> 0,
     evicted |-> 0, running |-> FALSE, ws_task |-> None, inbox |-> <<>>,
     pc |-> "new"]

\* self._prices[0].timestamp < cutoff
Stale_Never(snap, cutoff) == FALSE
Stale(snap, cutoff) == snap.timestamp < cutoff

RECURSIVE Trim(_, _)
Trim(prices, cutoff) ==
    IF prices # <<>> /\ Stale(prices[1], cutoff)
    THEN Trim(Tail(prices), cutoff)
    ELSE prices

\* deque(maxlen=...).append drops the oldest entry of a full deque.
DequeAppend(prices, snap) ==
    IF Len(prices) >= deque_maxlen THEN Append(Tail(prices), snap)
    ELSE Append(prices, snap)

\* evicted counts the entries the trim loop of this recording popped.
record_price(f, price, t) ==
    LET appended == DequeAppend(f.prices, [price |-> price, timestamp |-> t])
        kept == Trim(appended, t - history_seconds)
    IN  [f EXCEPT !.current_price = price,
                  !.last_update = t,
                  !.prices = kept,
                  !.evicted = Len(appended) - Len(kept)]

\* while self._running: the place the loop goes to from its top.
LoopTop(f) == IF f.running THEN "connecting" ELSE "returned"

FeedFrame ==
    UNCHANGED <<rm, today, ret, dry_run, bot, legs, cycle, wait, call,
                store, loop, tracker, budget>>

\* time.time() moves on.
FeedTick ==
    /\ now < MaxTime
    /\ now' = now + 1
    /\ UNCHANGED price_feed
    /\ FeedFrame

StartWebsocket ==
    /\ price_feed.pc = "new"
    /\ price_feed' = [price_feed EXCEPT !.running = TRUE,
                                        !.pc = "connecting"]
    /\ UNCHANGED now /\ FeedFrame

\* ws_connect succeeds, or raises.
Connect(ok) ==
    /\ price_feed.pc = "connecting"
    /\ price_feed' = [price_feed EXCEPT !.pc = IF ok THEN "streaming"
                                              ELSE "backoff"]
    /\ UNCHANGED now /\ FeedFrame

\* A TEXT message: the loop breaks when stop() was called, records a
\* positive price and otherwise goes on.
ws_text(f, payload, t) ==
    IF ~f.running THEN [f EXCEPT !.pc = LoopTop(f)]
    ELSE IF payload > 0 THEN record_price(f, payload, t)
    ELSE f

WsText(payload) ==
    /\ price_feed.pc = "streaming"
    /\ price_feed' = ws_text(price_feed, payload, now)
    /\ UNCHANGED now /\ FeedFrame

\* An ERROR or CLOSED message, or the end of the stream: break, and the
\* loop is back at its top.
WsClosed ==
    /\ price_feed.pc = "streaming"
    /\ price_feed' = [price_feed EXCEPT !.pc = LoopTop(price_feed)]
    /\ UNCHANGED now /\ FeedFrame

\* An exception in the stream or in the handling of a message that the
\* inner try does not catch.
WsRaises ==
    /\ price_feed.pc = "streaming"
    /\ price_feed' = [price_feed EXCEPT !.pc = "backoff"]
    /\ UNCHANGED now /\ FeedFrame

\* await asyncio.sleep(2) is over.
BackoffOver ==
    /\ price_feed.pc = "backoff"
    /\ price_feed' = [price_feed EXCEPT !.pc = LoopTop(price_feed)]
    /\ UNCHANGED now /\ FeedFrame

\* start_websocket is over: it returned, or the CancelledError left it.
Terminated(f) == f.pc \in {"returned", "cancelled"}

\* The CancelledError reaches start_websocket at the await it stands at.
cancel(f) ==
    [f EXCEPT !.pc = IF f.pc = "backoff" THEN "cancelled" ELSE "returned"]

\* The task is cancelled at an await: inside the try the CancelledError
\* breaks the loop, inside the sleep of the handler it leaves the function.
Cancelled ==
    /\ price_feed.pc \in {"connecting", "streaming", "backoff"}
    /\ price_feed' = cancel(price_feed)
    /\ UNCHANGED now /\ FeedFrame

\* self._running = False
\* if self._ws_task and not self._ws_task.done(): self._ws_task.cancel()
stop(f) ==
    LET stopped == [f EXCEPT !.running = FALSE] IN
    IF f.ws_task # None /\ ~Terminated(f) THEN cancel(stopped) ELSE stopped

Stop ==
    /\ price_feed.running
    /\ price_feed' = stop(price_feed)
    /\ UNCHANGED now /\ FeedFrame

\* fetch_current_price got a price over REST.
FetchCurrentPrice(price) ==
    /\ price_feed' = record_price(price_feed, price, now)
    /\ UNCHANGED now /\ FeedFrame

FeedNext ==
    \/ FeedTick
    \/ StartWebsocket
    \/ \E ok \in BOOLEAN : Connect(ok)
    \/ \E payload \in Payloads : WsText(payload)
    \/ WsClosed
    \/ WsRaises
    \/ BackoffOver
    \/ Cancelled
    \/ Stop
    \/ \E price \in Prices : FetchCurrentPrice(price)

InitFeed ==
    /\ RiskInit /\ BotInit /\ dry_run = TRUE
    /\ wait = None /\ call = None
    /\ price_feed = FeedInit
    /\ store = None /\ loop = None /\ tracker = None /\ budget = None

SpecFeed == InitFeed /\ [][FeedNext]_vars

\* The awaits of start_websocket that end by themselves do end: ws_connect
\* answers or runs into its timeout of 30 s, and asyncio.sleep(2) returns.
\* What the stream sends, and whether anyone cancels the task, is up to the
\* surroundings.
FairFeed ==
    /\ WF_vars(\E ok \in BOOLEAN : Connect(ok))
    /\ WF_vars(BackoffOver)

SpecFeedFair == SpecFeed /\ FairFeed

---------------------------------------------------------------------------
\* The two tasks of run() on the one event loop of asyncio.run: the task of
\* start_websocket, connected, and the task of run() inside a
\* wait_for_terminal_order that an execute_ function called from scan_once.

\* scan_once calls the execute_ functions, and they wait_for_terminal_order,
\* as plain functions; the polling loop sleeps with time.sleep. From the
\* call to the return the task of run() reaches no await and keeps the
\* event loop.
HoldsLoop(w) == w.pc = "polling"

\* time.sleep(poll_interval_seconds): the sleeps the call has made.
Sleeps(w) ==
    IF w.pc = "returned" /\ w.exit # "timeout" THEN w.polls - 1 ELSE w.polls

TasksFrame ==
    UNCHANGED <<rm, today, ret, botVars, call, store, loop, tracker, budget>>

\* The stream sends a trade: the socket has it, stamped here with the sleeps
\* the polling had made by then.
Deliver(payload) ==
    /\ price_feed.pc = "streaming"
    /\ Len(price_feed.inbox) < MaxInbox
    /\ price_feed' =
           [price_feed EXCEPT
              !.inbox = Append(@, [payload |-> payload,
                                   sleeps |-> Sleeps(wait)])]
    /\ UNCHANGED wait
    /\ TasksFrame

\* The event loop resumes start_websocket with the next message, which it
\* can do when no other task is running.
Ingest ==
    /\ price_feed.pc = "streaming"
    /\ price_feed.inbox # <<>>
    /\ ~HoldsLoop(wait)
    /\ price_feed' = ws_text([price_feed EXCEPT !.inbox = Tail(@)],
                             Head(price_feed.inbox).payload, now)
    /\ UNCHANGED wait
    /\ TasksFrame

TasksNext ==
    \/ WaitNext
    \/ \E payload \in Prices : Deliver(payload)
    \/ Ingest

InitTasks ==
    /\ RiskInit /\ BotInit /\ dry_run = FALSE
    /\ call = None
    /\ store = None /\ loop = None /\ tracker = None /\ budget = None
    /\ price_feed = [FeedInit EXCEPT !.running = TRUE, !.pc = "streaming"]
    /\ wait = WaitStart(pure_arb_order_size)

SpecTasks == InitTasks /\ [][TasksNext]_vars

---------------------------------------------------------------------------
\* The RiskManager and data/risk_state.json across restarts of the process.

\* for t in self._trades[-100:]
LastTrades(trades) ==
    SubSeq(trades, Max(1, Len(trades) - kept_trades + 1), Len(trades))

\* No risk_state.json has been written yet.
NoFile == [exists |-> FALSE]

\* The state save_state serializes: the halted flag and its reason are not
\* among the keys.
Snapshot(r) ==
    [exists |-> TRUE,
     trades |-> LastTrades(r.trades),
     daily_pnl |-> r.daily_pnl,
     daily_pnl_date |-> r.daily_pnl_date,
     current_exposure |-> r.current_exposure]

\* save_state: the file is rewritten, or the write raises, which is logged.
save_state(r, file, ok) == IF ok THEN Snapshot(r) ELSE file

StoreFrame ==
    UNCHANGED <<botVars, wait, call, price_feed, loop, tracker, budget>>

\* The process runs until run's handler of KeyboardInterrupt and
\* CancelledError has called save_state.
Running == ret.op # "save_state"

\* The shutdown of run: save_state, after which the process is gone.
SaveState(ok) ==
    /\ Running
    /\ store' = save_state(rm, store, ok)
    /\ ret' = Call("save_state", ok, <<>>)
    /\ UNCHANGED <<rm, today>>

\* The process starts again, after a shutdown or after being killed:
\* PolymarketArbBot.__init__ builds a RiskManager, whose __init__ creates the
\* data directory and reads nothing from it.
Restart ==
    /\ rm' = RiskManagerInit
    /\ ret' = Call("restart", TRUE, <<>>)
    /\ UNCHANGED <<today, store>>

\* The calls the orchestrator makes on its RiskManager while it runs.
StoreNext ==
    \/ /\ Running
       /\ UNCHANGED store
       /\ \/ \E c \in Costs : CheckCanTrade(c)
          \/ \E c \in Costs : RecordTrade(c)
          \/ \E i \in 1..MaxTrades, s \in Settlements : RecordSettlement(i, s)
          \/ DayRollover
    \/ \E ok \in BOOLEAN : SaveState(ok)
    \/ Restart

InitStore ==
    /\ RiskInit /\ BotInit /\ dry_run = TRUE
    /\ wait = None /\ call = None
    /\ price_feed = None /\ loop = None /\ tracker = None /\ budget = None
    /\ store = NoFile

SpecStore == InitStore /\ [][StoreNext /\ StoreFrame]_vars

---------------------------------------------------------------------------
\* SpendTracker: record, settle, recent, count and the listeners.

Amounts == 1..MaxAmount
Revenues == 0..MaxAmount

\* uuid4().hex[:12]: the tx_id of the k-th AgentTx of the process is k.
TxIds == 1..MaxRecords

\* AgentTx(**kwargs) as record builds it.
AgentTx(tx_id, amount) ==
    [tx_id |-> tx_id, amount |-> amount, revenue |-> 0, status |-> "pending"]

\* AgentTx.settle
SettledTx(tx, revenue, status) ==
    [tx EXCEPT !.revenue = revenue, !.status = status]

\* SpendTracker(...) before the constructor has run.
NoTracker ==
    [pc |-> "new", max_history |-> 0, txs |-> <<>>, ordered_ids |-> <<>>,
     listeners |-> 0, received |-> <<>>, recorded |-> 0, settled |-> 0,
     persist |-> FALSE, disk |-> <<>>]

\* __init__(self, agent_id, persist_dir, max_history): any other keyword,
\* exporters among them, is a TypeError and no tracker is built.
SpendTrackerInit(exporters, max_history) ==
    IF exporters
    THEN [NoTracker EXCEPT !.pc = "TypeError"]
    ELSE [NoTracker EXCEPT !.pc = "ready", !.max_history = max_history]

\* while len(self._ordered_ids) > self._max_history
Overfull_Never(ordered_ids, max_history) == FALSE
Overfull(ordered_ids, max_history) == Len(ordered_ids) > max_history

\* _trim: the ids popped from the front of _ordered_ids.
RECURSIVE TrimmedIds(_, _)
TrimmedIds(ordered_ids, max_history) ==
    IF Overfull(ordered_ids, max_history)
    THEN {Head(ordered_ids)} \cup TrimmedIds(Tail(ordered_ids), max_history)
    ELSE {}

\* _trim: what it leaves of _ordered_ids.
RECURSIVE TrimOrdered(_, _)
TrimOrdered(ordered_ids, max_history) ==
    IF Overfull(ordered_ids, max_history)
    THEN TrimOrdered(Tail(ordered_ids), max_history)
    ELSE ordered_ids

\* self._txs.pop(old_id, None) for the ids in `popped`.
PopAll(txs, popped) == [i \in (DOMAIN txs) \ popped |-> txs[i]]

\* _trim
trim(t) ==
    LET popped == TrimmedIds(t.ordered_ids, t.max_history) IN
    [t EXCEPT !.ordered_ids = TrimOrdered(@, t.max_history),
              !.txs = PopAll(@, popped)]

\* if self._persist_path: self._append_to_disk(tx)
AppendToDisk(t, tx) ==
    IF t.persist THEN [t EXCEPT !.disk = Append(@, tx)] ELSE t

\* record: store, trim, append to the file, then every listener is called
\* with the AgentTx (a listener keeps the object, so the model keeps its
\* tx_id).
record(t, tx) ==
    LET t1 == [t EXCEPT !.txs = (tx.tx_id :> tx) @@ @,
                        !.ordered_ids = Append(@, tx.tx_id)]
        t2 == AppendToDisk(trim(t1), tx)
    IN  [t2 EXCEPT !.received =
                       IF t.listeners > 0 THEN Append(@, tx.tx_id) ELSE @,
                   !.recorded = @ + 1]

\* settle: None for an unknown tx_id, else the AgentTx is settled in place
\* and appended to the file once more; no listener is called.
settle(t, tx_id, revenue, status) ==
    IF tx_id \notin DOMAIN t.txs THEN t
    ELSE LET tx == SettledTx(t.txs[tx_id], revenue, status) IN
         AppendToDisk([t EXCEPT !.txs[tx_id] = tx, !.settled = @ + 1], tx)

\* self._ordered_ids[-n:] for n >= 0 (-0 is 0: the whole list).
LastIds(ordered_ids, n) ==
    IF n = 0 \/ n >= Len(ordered_ids) THEN ordered_ids
    ELSE SubSeq(ordered_ids, Len(ordered_ids) - n + 1, Len(ordered_ids))

\* [self._txs[tid] for tid in ids if tid in self._txs]
RECURSIVE KnownTxs(_, _)
KnownTxs(txs, ids) ==
    IF ids = <<>> THEN <<>>
    ELSE IF Head(ids) \in DOMAIN txs
    THEN <<txs[Head(ids)]>> \o KnownTxs(txs, Tail(ids))
    ELSE KnownTxs(txs, Tail(ids))

\* recent(n)
recent(t, n) == KnownTxs(t.txs, LastIds(t.ordered_ids, n))

\* The property count.
count(t) == Cardinality(DOMAIN t.txs)

TrackerFrame ==
    UNCHANGED <<rm, today, ret, botVars, wait, call, price_feed, store, loop,
                budget>>

NewSpendTracker(exporters, max_history) ==
    /\ tracker.pc = "new"
    /\ tracker' = SpendTrackerInit(exporters, max_history)

\* add_listener, before the first record as in ObservabilityStack.create.
AddListener ==
    /\ tracker.pc = "ready"
    /\ tracker.recorded = 0
    /\ tracker.listeners = 0
    /\ tracker' = [tracker EXCEPT !.listeners = 1]

Record(amount) ==
    /\ tracker.pc = "ready"
    /\ tracker.recorded < MaxRecords
    /\ tracker' = record(tracker, AgentTx(tracker.recorded + 1, amount))

Settle(tx_id, revenue) ==
    /\ tracker.pc = "ready"
    /\ tracker.settled < MaxSettles
    /\ tracker' = settle(tracker, tx_id, revenue, "confirmed")

TrackerNext ==
    \/ \E exporters \in BOOLEAN, max_history \in 0..MaxHistory :
           NewSpendTracker(exporters, max_history)
    \/ AddListener
    \/ \E amount \in Amounts : Record(amount)
    \/ \E tx_id \in TxIds, revenue \in Revenues : Settle(tx_id, revenue)

InitTracker ==
    /\ RiskInit /\ BotInit /\ dry_run = TRUE
    /\ wait = None /\ call = None
    /\ price_feed = None /\ store = None /\ loop = None /\ budget = None
    /\ tracker = NoTracker

SpecTracker == InitTracker /\ [][TrackerNext /\ TrackerFrame]_vars

---------------------------------------------------------------------------
\* BudgetManager: on_tx, check_can_spend, reset_halt, with time.time() = now.

Limits == 1..MaxLimit

\* BudgetRule; window_seconds 0 is "all time".
BudgetRule(name, max_amount, window_seconds, halt_on_breach) ==
    [name |-> name, max_amount |-> max_amount,
     window_seconds |-> window_seconds, halt_on_breach |-> halt_on_breach]

\* BudgetManager() followed by the add_rule calls of `rules`.
BudgetManagerInit(rules) ==
    [rules |-> rules, tx_history |-> <<>>, halted |-> FALSE,
     halt_reason |-> <<>>, alerts |-> <<>>]

\* if tx.created_at >= cutoff
InWindow_Always(tx, window_seconds, t) == TRUE
InWindow(tx, window_seconds, t) ==
    window_seconds <= 0 \/ tx.created_at >= t - window_seconds

\* _window_spend
RECURSIVE window_spend(_, _, _)
window_spend(tx_history, window_seconds, t) ==
    IF tx_history = <<>> THEN 0
    ELSE (IF InWindow(Head(tx_history), window_seconds, t)
          THEN Head(tx_history).amount ELSE 0)
         + window_spend(Tail(tx_history), window_seconds, t)

\* if rule.halt_on_breach
Halts_Never(rule) == FALSE
Halts(rule) == rule.halt_on_breach

\* _fire_alert: the message names the rule, the spend and the limit.
fire_alert(b, rule, spent) ==
    LET message == <<rule.name, spent, rule.max_amount>>
        b1 == [b EXCEPT !.alerts = Append(@, message)]
    IN  IF Halts(rule)
        THEN [b1 EXCEPT !.halted = TRUE, !.halt_reason = message]
        ELSE b1

\* if spent > rule.max_amount
OverLimit_AtLimit(spent, rule) == spent >= rule.max_amount
OverLimit(spent, rule) == spent > rule.max_amount

\* for rule in self._rules: ... self._fire_alert(rule, spent, tx), from rule
\* i on.
RECURSIVE CheckRules(_, _, _)
CheckRules(b, i, t) ==
    IF i > Len(b.rules) THEN b
    ELSE LET rule == b.rules[i]
             spent == window_spend(b.tx_history, rule.window_seconds, t)
         IN  CheckRules(IF OverLimit(spent, rule)
                        THEN fire_alert(b, rule, spent) ELSE b,
                        i + 1, t)

\* on_tx
on_tx(b, tx, t) ==
    CheckRules([b EXCEPT !.tx_history = Append(@, tx)], 1, t)

\* check_can_spend's loop over the rules, from rule i on.
RECURSIVE WouldBreach(_, _, _, _)
WouldBreach(b, amount, i, t) ==
    IF i > Len(b.rules) THEN [ok |-> TRUE, reason |-> <<"OK">>]
    ELSE LET rule == b.rules[i]
             current == window_spend(b.tx_history, rule.window_seconds, t)
         IN  IF current + amount > rule.max_amount
             THEN [ok |-> FALSE, reason |-> <<"Would breach", rule.name>>]
             ELSE WouldBreach(b, amount, i + 1, t)

\* check_can_spend
check_can_spend(b, amount, t) ==
    IF b.halted
    THEN [ok |-> FALSE, reason |-> <<"Agent halted", b.halt_reason>>]
    ELSE WouldBreach(b, amount, 1, t)

\* reset_halt
reset_halt(b) == [b EXCEPT !.halted = FALSE, !.halt_reason = <<>>]

BudgetFrame ==
    UNCHANGED <<rm, today, dry_run, bot, legs, cycle, wait, call, price_feed,
                store, loop, tracker>>

\* The SpendTracker calls on_tx with a new AgentTx, created at `now`.
OnTx(amount) ==
    /\ Len(budget.tx_history) < MaxTxs
    /\ budget' = on_tx(budget, [amount |-> amount, created_at |-> now], now)
    /\ ret' = Call("on_tx", TRUE, <<>>)
    /\ UNCHANGED now

CheckCanSpend(amount) ==
    LET res == check_can_spend(budget, amount, now) IN
    /\ ret' = Call("check_can_spend", res.ok, res.reason)
    /\ UNCHANGED <<budget, now>>

ResetHalt ==
    /\ budget' = reset_halt(budget)
    /\ ret' = Call("reset_halt", TRUE, <<>>)
    /\ UNCHANGED now

\* time.time() moves on.
BudgetTick ==
    /\ now < MaxTime
    /\ now' = now + 1
    /\ ret' = Call("tick", TRUE, <<>>)
    /\ UNCHANGED budget

BudgetNext ==
    \/ \E amount \in Amounts : OnTx(amount)
    \/ \E amount \in 0..MaxAmount : CheckCanSpend(amount)
    \/ ResetHalt
    \/ BudgetTick

\* The two rules of the stack: a windowed one and an all-time one, each with
\* or without halt_on_breach.
InitBudget ==
    /\ RiskInit /\ BotInit /\ dry_run = TRUE
    /\ wait = None /\ call = None
    /\ price_feed = None /\ store = None /\ loop = None /\ tracker = None
    /\ \E m1 \in Limits, m2 \in Limits, h1 \in BOOLEAN, h2 \in BOOLEAN :
           budget = BudgetManagerInit(
               <<BudgetRule("hourly", m1, hourly_window, h1),
                 BudgetRule("daily", m2, 0, h2)>>)

SpecBudget == InitBudget /\ [][BudgetNext /\ BudgetFrame]_vars

---------------------------------------------------------------------------
\* PolymarketArbBot.run: the main loop, one step per await or test.

\* What one scan_once does: it returns a result, or it raises.
ScanOutcomes ==
    {"market_closed", "no_books", "scanned", "insufficient_liquidity",
     "risk_refused", "execution_fault", "traded", "io_failure"}

\* scan_once re-raises a failed order-book fetch in live mode (in dry-run it
\* logs it and goes on with simulated books); whatever the execute_
\* functions raise they catch and log themselves.
Raises(outcome, live) == outcome = "io_failure" /\ live

\* except Exception as e: logger.error(f"Scan error: {e}")
Caught_Never(outcome) == FALSE
Caught(outcome) == outcome \in ScanOutcomes

\* run() before it looks for the first market; scan_errors counts the "Scan
\* error" lines of the log. market numbers the markets loaded so far (0:
\* market_slug and market_end_ts are None), has_price says that the feed's
\* current_price is set, window_epoch names the market at whose loading
\* _window_start_price was pinned (0: it is None), marks counts the
\* set_window_start calls since the market was loaded, and searched says
\* that the pass has called get_active_btc_15m_slug.
LoopInit ==
    [pc |-> "discover", cycles |-> 1, event |-> "none",
     logged |-> FALSE, scan_errors |-> 0, cause |-> "none", saved |-> FALSE,
     market |-> 0, has_price |-> FALSE, window_epoch |-> 0, marks |-> 0,
     searched |-> FALSE]

\* A pass ends in `continue` or at the bottom of the loop body.
NextCycle(l) ==
    [l EXCEPT !.pc = "market_check", !.cycles = @ + 1, !.event = "none",
              !.logged = FALSE, !.searched = FALSE]

\* if self.price_feed.current_price: self.price_feed.set_window_start()
PinsWindow_Never(has_price) == FALSE
PinsWindow(has_price) == has_price

\* self._load_market(slug) and the pinning of the window start that follows
\* it with no await in between.
LoadMarket(l) ==
    LET epoch == l.market + 1 IN
    [l EXCEPT !.market = epoch,
              !.marks = IF PinsWindow(l.has_price) THEN 1 ELSE 0,
              !.window_epoch = IF PinsWindow(l.has_price) THEN epoch ELSE @]

RunFrame ==
    UNCHANGED <<rm, today, ret, botVars, wait, call, price_feed, store,
                tracker, budget>>

\* The feed records its first price: the stream's, or the one
\* fetch_current_price gets while run() waits for it.
PriceArrives ==
    /\ loop.pc # "stopped"
    /\ ~loop.has_price
    /\ loop' = [loop EXCEPT !.has_price = TRUE]

\* Find initial market: get_active_btc_15m_slug and _load_market, or one of
\* them raises, which is logged ("Will retry in 30 seconds...").
FindInitialMarket(found) ==
    /\ loop.pc = "discover"
    /\ loop' = IF found THEN [LoadMarket(loop) EXCEPT !.pc = "market_check"]
               ELSE [loop EXCEPT !.pc = "startup_sleep"]

\* await asyncio.sleep(30) is over: on to the main loop.
StartupSleepOver ==
    /\ loop.pc = "startup_sleep"
    /\ loop' = [loop EXCEPT !.pc = "market_check"]

\* if self._is_market_closed(): never with market_end_ts None.
MarketCheck(closed) ==
    /\ loop.pc = "market_check"
    /\ closed => loop.market # 0
    /\ loop' = [loop EXCEPT !.pc = IF closed THEN "transition"
                                  ELSE "risk_check"]

\* _handle_market_transition: every failed search is caught and retried; it
\* returns True with the new market loaded, or False after twelve attempts.
HandleMarketTransition(success) ==
    /\ loop.pc = "transition"
    /\ success => loop.market < MaxEpochs
    /\ loop' = IF success
               THEN [LoadMarket(loop) EXCEPT !.pc = "risk_check",
                                             !.searched = TRUE]
               ELSE [loop EXCEPT !.pc = "retry_sleep", !.searched = TRUE,
                                 !.event = "io_failure", !.logged = TRUE]

\* if self.risk_manager.is_halted
RiskCheck(halted) ==
    /\ loop.pc = "risk_check"
    /\ loop' = IF halted
               THEN [loop EXCEPT !.pc = "halted_sleep", !.event = "halted",
                                 !.logged = TRUE]
               ELSE [loop EXCEPT !.pc = "scanning"]

\* await self.scan_once() inside try ... except Exception; without a
\* market_slug scan_once returns {"status": "market_closed"} at once.
AwaitScanOnce(outcome, live) ==
    /\ loop.pc = "scanning"
    /\ loop.market = 0 => outcome = "market_closed"
    /\ loop' =
         IF ~Raises(outcome, live)
         THEN [loop EXCEPT !.pc = "scan_sleep", !.event = outcome,
                           !.logged = outcome \in {"risk_refused",
                                                   "execution_fault",
                                                   "io_failure"}]
         ELSE IF Caught(outcome)
         THEN [loop EXCEPT !.pc = "scan_sleep", !.event = outcome,
                           !.logged = TRUE, !.scan_errors = @ + 1]
         ELSE [loop EXCEPT !.pc = "stopped", !.event = outcome,
                           !.cause = "exception"]

\* asyncio.sleep(10), asyncio.sleep(60) and asyncio.sleep(scan_interval) are
\* over: the next pass of while True.
SleepOver ==
    /\ loop.pc \in {"retry_sleep", "halted_sleep", "scan_sleep"}
    /\ loop.cycles < MaxCycles
    /\ loop' = NextCycle(loop)

\* except (KeyboardInterrupt, asyncio.CancelledError): the summary, then
\* save_state, then the finally clause. The task is cancelled at an await.
\* The search for the first market stands before the try.
Interrupted(cause) ==
    /\ loop.pc # "stopped"
    /\ cause = "cancelled" =>
           loop.pc \in {"startup_sleep", "transition", "retry_sleep",
                        "halted_sleep", "scanning", "scan_sleep"}
    /\ loop' = [loop EXCEPT
                  !.pc = "stopped", !.cause = cause,
                  !.saved = loop.pc \notin {"discover", "startup_sleep"}]

RunNext ==
    \/ PriceArrives
    \/ \E found \in BOOLEAN : FindInitialMarket(found)
    \/ StartupSleepOver
    \/ \E closed \in BOOLEAN : MarketCheck(closed)
    \/ \E success \in BOOLEAN : HandleMarketTransition(success)
    \/ \E halted \in BOOLEAN : RiskCheck(halted)
    \/ \E outcome \in ScanOutcomes, live \in BOOLEAN :
           AwaitScanOnce(outcome, live)
    \/ SleepOver
    \/ \E cause \in {"cancelled", "interrupt"} : Interrupted(cause)

InitRun ==
    /\ RiskInit /\ BotInit /\ dry_run = TRUE
    /\ wait = None /\ call = None
    /\ price_feed = None /\ store = None /\ tracker = None /\ budget = None
    /\ loop = LoopInit

SpecRun == InitRun /\ [][RunNext /\ RunFrame]_vars

---------------------------------------------------------------------------
\* SpendTracker with a persist_dir: records under tx_ids the caller chooses,
\* and load_from_disk.

\* SpendTracker(agent_id, persist_dir=..., max_history=...): the file of an
\* earlier tracker of the same agent is still there.
PersistentTrackerInit(max_history, disk) ==
    [NoTracker EXCEPT !.pc = "ready", !.max_history = max_history,
                      !.persist = TRUE, !.disk = disk]

\* The loop of load_from_disk over the lines of the file, from line k on.
RECURSIVE LoadLines(_, _, _)
LoadLines(t, lines, k) ==
    IF k > Len(lines) THEN t
    ELSE LoadLines([t EXCEPT !.txs = (lines[k].tx_id :> lines[k]) @@ @,
                             !.ordered_ids = Append(@, lines[k].tx_id)],
                   lines, k + 1)

\* load_from_disk: every line becomes an AgentTx, then _trim.
load_from_disk(t) ==
    IF ~t.persist THEN t ELSE trim(LoadLines(t, t.disk, 1))

NewPersistentTracker(max_history) ==
    /\ tracker.pc = "new"
    /\ tracker' = PersistentTrackerInit(max_history, <<>>)

\* record(tx_id=..., amount=...): tx_id is an AgentTx field like any other.
RecordAs(tx_id, amount) ==
    /\ tracker.pc = "ready"
    /\ Len(tracker.disk) < MaxLines
    /\ tracker' = record(tracker, AgentTx(tx_id, amount))

SettleOnDisk(tx_id, revenue) ==
    /\ Len(tracker.disk) < MaxLines
    /\ Settle(tx_id, revenue)

\* The process starts again and reads its file (recorded and settled go on
\* counting the calls made on the file's trackers).
Reload ==
    /\ tracker.pc = "ready"
    /\ tracker.disk # <<>>
    /\ LET t == PersistentTrackerInit(tracker.max_history, tracker.disk) IN
       tracker' = [load_from_disk(t) EXCEPT !.recorded = tracker.recorded,
                                            !.settled = tracker.settled]

ReloadNext ==
    \/ \E max_history \in 1..MaxHistory : NewPersistentTracker(max_history)
    \/ \E tx_id \in 1..MaxHistory, amount \in Amounts :
           RecordAs(tx_id, amount)
    \/ \E tx_id \in 1..MaxHistory, revenue \in Revenues :
           SettleOnDisk(tx_id, revenue)
    \/ Reload

SpecReload == InitTracker /\ [][ReloadNext /\ TrackerFrame]_vars

---------------------------------------------------------------------------
\* Properties of the RiskManager, under Spec.

\* C1: a check_can_trade made while the RiskManager is halted refuses,
\* whatever the cost; the reason it returns is "Trading halted" with the
\* stored halt reason; and the call leaves every field as it was.
C1_HaltedRefuses ==
    rm.halted =>
        \A c \in Costs :
            LET res == check_can_trade(rm, today, c) IN
            /\ ~res.ok
            /\ res.reason = <<"Trading halted", rm.halt_reason>>
            /\ res.rm = rm

\* A halted RiskManager has refused a trade although nothing is exposed and
\* the day's P&L is not below the limit.
C1_Witness ==
    /\ rm.halted
    /\ ret.op = "check_can_trade"
    /\ ~ret.ok
    /\ ret.reason = <<"Trading halted", rm.halt_reason>>
    /\ rm.current_exposure = 0
    /\ daily_pnl(rm, today) >= -max_daily_loss

\* C2: once halted, the RiskManager is halted after every call and every
\* day rollover but reset_daily, and reset_daily clears the flag.
C2_HaltedUntilReset ==
    [][/\ (rm.halted /\ ret'.op # "reset_daily") => rm'.halted
       /\ ret'.op = "reset_daily" => ~rm'.halted]_vars

\* Halted, on a later day than the halt, after a settlement with a positive
\* pnl that leaves the daily P&L above the limit.
C2_Witness ==
    /\ rm.halted
    /\ ret.op = "record_settlement"
    /\ ret.ok
    /\ rm.daily_pnl_date = today
    /\ today > 1
    /\ rm.daily_pnl > -max_daily_loss

\* C3, as the code has it: the RiskManager becomes halted only in a
\* check_can_trade evaluated while the day's P&L is strictly below
\* -max_daily_loss, and that call refuses; every check_can_trade evaluated
\* with the P&L strictly below the limit refuses and leaves the gate halted;
\* with the P&L at or above -max_daily_loss an active gate stays active.
C3_HaltsStrictlyBelowLimit ==
    [][/\ (~rm.halted /\ rm'.halted) =>
             /\ ret'.op = "check_can_trade"
             /\ ~ret'.ok
             /\ daily_pnl(rm, today) < -max_daily_loss
       /\ (ret'.op = "check_can_trade"
             /\ daily_pnl(rm, today) < -max_daily_loss) =>
             (~ret'.ok /\ rm'.halted)
       /\ (ret'.op = "check_can_trade" /\ ~rm.halted
             /\ daily_pnl(rm, today) >= -max_daily_loss) =>
             ~rm'.halted]_vars

\* A trade was authorized with the day's P&L exactly at -max_daily_loss.
C3_Witness ==
    /\ ret.op = "check_can_trade"
    /\ ret.ok
    /\ ~rm.halted
    /\ rm.daily_pnl_date = today
    /\ rm.daily_pnl = -max_daily_loss

\* C3 as claimed: a check_can_trade evaluated with the day's P&L at or below
\* -max_daily_loss authorizes nothing and leaves the gate halted.
C3_HaltsAtOrBelowLimit ==
    [][(ret'.op = "check_can_trade"
          /\ daily_pnl(rm, today) <= -max_daily_loss) =>
          (~ret'.ok /\ rm'.halted)]_vars

\* C5: on an active RiskManager check_can_trade authorizes iff the day's P&L
\* is not below -max_daily_loss, the cost is at most max_single_bet and
\* exposure plus cost is at most max_position_size; the reason of a refusal
\* is that of the first failing test in the order daily loss, single bet,
\* position size; and a daily-loss refusal halts the gate.
C5_ActiveDecision ==
    ~rm.halted =>
        \A c \in Costs :
            LET res == check_can_trade(rm, today, c)
                lossOk == daily_pnl(rm, today) >= -max_daily_loss
                betOk == c <= max_single_bet
                posOk == rm.current_exposure + c <= max_position_size
            IN  /\ res.ok <=> (lossOk /\ betOk /\ posOk)
                /\ res.ok => res.reason[1] = "OK"
                /\ ~lossOk =>
                     /\ res.reason[1] = "Daily loss limit reached"
                     /\ res.rm.halted
                /\ (lossOk /\ ~betOk) =>
                     res.reason[1] = "exceeds max single bet"
                /\ (lossOk /\ betOk /\ ~posOk) =>
                     res.reason[1] = "Would exceed max position"
                /\ lossOk => ~res.rm.halted

\* A trade was authorized with the exposure at max_position_size exactly.
C5_Witness ==
    /\ ret.op = "check_can_trade"
    /\ ret.ok
    /\ ret.reason = <<"OK">>
    /\ ~rm.halted
    /\ rm.current_exposure = max_position_size

\* C6: a check_can_trade refused for the single-bet or the position-size
\* limit leaves the exposure, the day's realized P&L (as the property
\* daily_pnl reports it), the halted flag and the halt reason as they were.
C6_LimitRefusalKeepsState ==
    \A c \in Costs :
        LET res == check_can_trade(rm, today, c) IN
        res.reason[1] \in {"exceeds max single bet",
                           "Would exceed max position"} =>
            /\ res.rm.current_exposure = rm.current_exposure
            /\ daily_pnl(res.rm, today) = daily_pnl(rm, today)
            /\ res.rm.halted = rm.halted
            /\ res.rm.halt_reason = rm.halt_reason
            /\ res.rm.trades = rm.trades

\* A cost above max_single_bet was refused with exposure and P&L not zero.
C6_Witness ==
    /\ ret.op = "check_can_trade"
    /\ ret.reason[1] = "exceeds max single bet"
    /\ ret.reason[2] > max_single_bet
    /\ rm.current_exposure > 0
    /\ rm.daily_pnl # 0

\* C7: in every state and for every cost, a check_can_trade and the same
\* call made again on the state the first one left decide alike.
C7_RepeatedCheckSameDecision ==
    \A c \in Costs :
        LET first == check_can_trade(rm, today, c)
            second == check_can_trade(first.rm, today, c)
        IN  first.ok <=> second.ok

\* A check_can_trade was refused by the halt that an earlier check_can_trade
\* set for the daily loss, with the day's P&L still below the limit.
C7_Witness ==
    /\ ret.op = "check_can_trade"
    /\ ~ret.ok
    /\ ret.reason[1] = "Trading halted"
    /\ ret.reason[2][1] = "Daily loss limit reached"
    /\ rm.daily_pnl_date = today
    /\ rm.daily_pnl < -max_daily_loss

\* C8: the exposure is never negative, and in every state record_settlement,
\* of a trade of _trades (open or settled) or of a trade never recorded, sets
\* the exposure to max(0, exposure - trade.cost) and adds pnl to the day's
\* realized P&L.
C8_SettlementFloorsExposure ==
    /\ rm.current_exposure >= 0
    /\ \A i \in 1..Len(rm.trades), s \in Settlements :
          LET after == record_settlement(rm, today, i, s[1], s[2]) IN
          /\ after.current_exposure =
                Max(0, rm.current_exposure - rm.trades[i].cost)
          /\ after.daily_pnl = daily_pnl(rm, today) + s[2]
    /\ \A c \in Costs, s \in Settlements :
          LET after == SettleRisk(rm, today, c, s[2]) IN
          /\ after.current_exposure = Max(0, rm.current_exposure - c)
          /\ after.daily_pnl = daily_pnl(rm, today) + s[2]

\* A trade already settled was settled again, with the exposure at its floor.
C8_Witness ==
    /\ ret.op = "record_settlement"
    /\ ret.reason[1] = "listed"
    /\ ret.reason[2] # "open"
    /\ \E i \in 1..Len(rm.trades) : rm.trades[i].cost > 0
    /\ rm.current_exposure = 0

\* C30, as the code has it: on a day other than the one the daily P&L belongs
\* to, the property daily_pnl returns 0, record_settlement leaves the
\* settled pnl alone as the day's P&L, and check_can_trade of a RiskManager
\* that is not halted evaluates its limits on a P&L of 0, so it neither
\* halts nor refuses for the daily loss; a halted RiskManager refuses without
\* resetting anything; and the daily P&L and its date change in no step but
\* check_can_trade, record_settlement, daily_pnl and reset_daily.
C30_LazyRollover ==
    [][/\ rm.daily_pnl_date # today =>
            /\ daily_pnl(rm, today) = 0
            /\ LazyDayReset(rm, today).daily_pnl_date = today
            /\ \A c \in Costs, s \in Settlements :
                   LET r == SettleRisk(rm, today, c, s[2]) IN
                   r.daily_pnl = s[2] /\ r.daily_pnl_date = today
            /\ \A c \in Costs :
                   LET res == check_can_trade(rm, today, c) IN
                   IF rm.halted
                   THEN ~res.ok /\ res.rm = rm
                   ELSE /\ res.rm.daily_pnl = 0
                        /\ res.rm.daily_pnl_date = today
                        /\ ~res.rm.halted
                        /\ res.reason[1] # "Daily loss limit reached"
       /\ (rm'.daily_pnl # rm.daily_pnl
             \/ rm'.daily_pnl_date # rm.daily_pnl_date) =>
             ret'.op \in {"check_can_trade", "record_settlement",
                          "daily_pnl", "reset_daily"}
       /\ (ret'.op = "check_can_trade" /\ ~rm.halted
             /\ rm.daily_pnl_date # today) =>
             (rm'.daily_pnl = 0 /\ rm'.daily_pnl_date = today /\ ~rm'.halted)
       /\ (ret'.op = "daily_pnl" /\ rm.daily_pnl_date # today) =>
             (rm'.daily_pnl = 0 /\ ret'.reason = <<0>>)]_vars

\* An active RiskManager on a new day still carries, unread, a P&L of the
\* previous day that is below -max_daily_loss.
C30_Witness ==
    /\ today > 1
    /\ rm.daily_pnl_date # today
    /\ rm.daily_pnl_date # 0
    /\ rm.daily_pnl < -max_daily_loss
    /\ ~rm.halted

\* C30 as claimed: the first check_can_trade on a new day resets the daily
\* P&L and leaves the gate active, whatever happened the day before.
C30_FirstCheckResets ==
    rm.daily_pnl_date # today =>
        \A c \in Costs :
            LET res == check_can_trade(rm, today, c) IN
            /\ res.rm.daily_pnl = 0
            /\ res.rm.daily_pnl_date = today
            /\ ~res.rm.halted

---------------------------------------------------------------------------
\* Properties of the orchestrator, under SpecBot.

\* C4: the exposure grows only in a record_trade, by that trade's cost, and
\* every record_trade of the orchestrator comes after a check_can_trade of
\* the same execute_ call that authorized that same cost.
C4_ExposureGrowsOnlyByAuthorizedTrade ==
    [][LET recorded == rm'.trades[Len(rm'.trades)] IN
       /\ rm'.current_exposure > rm.current_exposure =>
             /\ ret'.op = "record_trade"
             /\ rm'.current_exposure = rm.current_exposure + recorded.cost
       /\ ret'.op = "record_trade" =>
             /\ Len(rm'.trades) = Len(rm.trades) + 1
             /\ bot.auth.ok
             /\ bot.auth.cost = recorded.cost
             /\ bot'.auth = bot.auth]_vars

\* A live trade was recorded after a check that authorized its cost, with
\* exposure already open.
C4_Witness ==
    /\ ~dry_run
    /\ ret.op = "record_trade"
    /\ bot.auth.ok
    /\ bot.auth.cost = rm.trades[Len(rm.trades)].cost
    /\ rm.current_exposure > bot.auth.cost

\* C9: when execute_pure_arbitrage returns with exactly one leg reported
\* filled, a SELL order for that leg's token, of the full order size, at the
\* best bid, FAK, has been handed to place_order.
C9_FilledLegUnwound ==
    \A leg \in {"up", "down"} :
        LET other == IF leg = "up" THEN "down" ELSE "up" IN
        (bot.pc = "pure_done" /\ legs[leg].filled /\ ~legs[other].filled) =>
            /\ legs[leg].best_bid # 0
            /\ legs[leg].unwind =
                  <<"SELL", TokenOf(leg), legs[leg].best_bid,
                    bot.pure.order_size, "FAK">>

\* C10: when execute_pure_arbitrage returns after the exchange accepted one
\* leg only, that leg has been polled and cancelled, and unwound if filled.
C10_AcceptedLegHandled ==
    \A leg \in {"up", "down"} :
        LET other == IF leg = "up" THEN "down" ELSE "up" IN
        (bot.pc = "pure_done" /\ legs[leg].accepted
            /\ ~legs[other].accepted) =>
            /\ legs[leg].polled
            /\ legs[leg].cancel_sent
            /\ legs[leg].filled => legs[leg].unwind # <<>>

C14_TemporalSubjectToCooldown ==
    [][/\ (bot.pc = "pure_done" /\ cycle.temporal = "found") =>
             bot'.pc \in {"pure_done", "temporal_start"}
       /\ (bot.pc = "temporal_start" /\ bot'.pc # "temporal_start") =>
             /\ bot'.pc \in {"temporal_done", "temporal_risk"}
             /\ bot'.pc = "temporal_done" <=>
                   now - bot.last_trade_ts < cooldown_seconds]_vars

\* The pure trade of the cycle was executed and the temporal opportunity
\* was skipped by the cooldown, though the risk gate authorizes it and the
\* simulated balance covers it.
C14_Witness ==
    /\ bot.pc = "temporal_done"
    /\ cycle.pure = "executed"
    /\ cycle.temporal = "cooldown"
    /\ check_can_trade(rm, today, bot.temporal.total_investment).ok
    /\ bot.sim_balance >= bot.temporal.total_investment

\* C14 as claimed: after the pure trade of a cycle was executed, a temporal
\* opportunity of that cycle which the risk gate authorizes is not skipped.
C14_PureDoesNotBlockTemporal ==
    (bot.pc = "temporal_done" /\ cycle.pure = "executed"
        /\ cycle.temporal # "none"
        /\ check_can_trade(rm, today, bot.temporal.total_investment).ok) =>
        cycle.temporal # "cooldown"

\* C24 as stated: every executed pure-arbitrage trade is settled at once, in
\* simulation and in live mode alike: once execute_pure_arbitrage is past its
\* record_trade and record_settlement, the TradeRecord is no longer open.
C24_PureTradeSettledAtOnce ==
    \A i \in 1..Len(rm.trades) :
        (/\ rm.trades[i].strategy = "pure_arb"
         /\ ~(bot.pc = "pure_sim_settle" /\ i = Len(rm.trades)))
            => rm.trades[i].status # "open"

---------------------------------------------------------------------------
\* Properties of wait_for_terminal_order, under SpecWait.

\* C11: wait_for_terminal_order makes at most timeout_seconds /
\* poll_interval_seconds polls, and when it returns for the spent budget the
\* state it returns has the status "TimedOut" and filled = False.
C11_TimeoutIsTimedOut ==
    /\ wait.polls * poll_interval_seconds <= timeout_seconds
    /\ (wait.pc = "returned" /\ wait.exit = "timeout") =>
          /\ wait.last_summary.filled = FALSE
          /\ wait.last_summary.status = "TimedOut"

\* C12: in every pass of the loop, an order whose filled size (the value of
\* the first size key it has) is at least the requested size ends the wait
\* in that pass with filled = True, whatever its status.
C12_SizeFilledIsTerminal ==
    InBudget(wait) =>
        \A od \in Orders, latency \in 0..MaxLatency :
            LET size == filled_size(od)
                after == poll_once(wait, od, latency)
            IN  (wait.requested_size # None /\ size # None
                    /\ size >= wait.requested_size) =>
                    /\ after.pc = "returned"
                    /\ after.last_summary.filled = TRUE
                    /\ after.polls = wait.polls + 1

\* A wait ended on the filled size of an order whose status is not terminal.
C12_Witness ==
    /\ wait.pc = "returned"
    /\ wait.exit = "size"
    /\ wait.last_summary.filled = TRUE
    /\ wait.last_summary.status \notin terminal_statuses
    /\ wait.last_summary.filled_size >= wait.requested_size
    /\ wait.polls > 1

---------------------------------------------------------------------------
\* Properties of compute_buy_fill and the detectors, under SpecLib.

\* The call of fn has returned.
Returned(fn) == call.fn = fn /\ call.result # Pending

\* Total size on offer at a price of at most p.
RECURSIVE DepthAtMost(_, _)
DepthAtMost(asks, p) ==
    IF asks = <<>> THEN 0
    ELSE (IF asks[1][1] <= p THEN asks[1][2] ELSE 0)
             + DepthAtMost(Tail(asks), p)

Depth(asks) == DepthAtMost(asks, one_dollar)

\* What a buyer of S who consumes the levels from the cheapest upward takes
\* at price p.
TakenAt(asks, S, p) ==
    Min(S, DepthAtMost(asks, p)) - Min(S, DepthAtMost(asks, p - 1))

RECURSIVE CheapestCostUpTo(_, _, _)
CheapestCostUpTo(asks, S, p) ==
    IF p = 0 THEN 0
    ELSE p * TakenAt(asks, S, p) + CheapestCostUpTo(asks, S, p - 1)

CheapestCost(asks, S) == CheapestCostUpTo(asks, S, one_dollar)

\* The highest price that buyer takes from; the lowest ask.
WorstTaken(asks, S) ==
    CHOOSE p \in AskPrices :
        /\ TakenAt(asks, S, p) > 0
        /\ \A q \in AskPrices : TakenAt(asks, S, q) > 0 => q <= p

LowestAsk(asks) ==
    CHOOSE p \in AskPrices :
        /\ \E i \in 1..Len(asks) : asks[i][1] = p
        /\ \A i \in 1..Len(asks) : p <= asks[i][1]

\* C17 as stated: for every list of ask levels, in any order, and every
\* target size S > 0, compute_buy_fill returns absent iff the cumulative
\* depth is below S; otherwise filled is S, cost is the sum of price x
\* quantity taken when the levels are consumed from the cheapest upward,
\* worst is the highest price of a level taken from and best is the lowest
\* ask.
C17_AbsentIffDepthBelowTarget ==
    Returned("compute_buy_fill") /\ call.args[2] > 0 =>
        LET asks == call.args[1]
            S == call.args[2]
            fill == call.result
        IN  /\ fill = NoFill <=> Depth(asks) < S
            /\ fill # NoFill =>
                  /\ fill.filled = S
                  /\ fill.cost = CheapestCost(asks, S)
                  /\ fill.worst = WorstTaken(asks, S)
                  /\ fill.best = LowestAsk(asks)

\* C17: for every list of ask levels, in any order, and every target size
\* S > 0, compute_buy_fill returns absent iff the list is empty or the
\* cumulative depth is more than the tolerance below S; otherwise filled is the smaller of S and the
\* depth, cost is the sum of price x quantity taken when the levels are
\* consumed from the cheapest upward, vwap is cost / filled, worst is the
\* highest price of a level taken from and best is the lowest ask.
C17_FillContract ==
    Returned("compute_buy_fill") /\ call.args[2] > 0 =>
        LET asks == call.args[1]
            S == call.args[2]
            fill == call.result
        IN  /\ fill = NoFill <=>
                  asks = <<>> \/ Depth(asks) + fill_tolerance < S
            /\ fill # NoFill =>
                  /\ fill.filled = Min(S, Depth(asks))
                  /\ fill.cost = CheapestCost(asks, S)
                  /\ fill.vwap = <<CheapestCost(asks, S), fill.filled>>
                  /\ fill.worst = WorstTaken(asks, S)
                  /\ fill.best = LowestAsk(asks)

\* Two levels handed in dearest first whose depth is the tolerance short of
\* the target: an estimate comes back, filled below the target.
C17_Witness ==
    /\ Returned("compute_buy_fill")
    /\ call.result # NoFill
    /\ Len(call.args[1]) = 2
    /\ call.args[1][1][1] > call.args[1][2][1]
    /\ call.result.worst = call.args[1][1][1]
    /\ Depth(call.args[1]) + fill_tolerance = call.args[2]
    /\ call.result.filled < call.args[2]

\* compute_buy_fill has an estimate for a buyer of S: the book is not empty
\* and its depth is at most the tolerance short of S.
CanFill(asks, S) == asks # <<>> /\ Depth(asks) + fill_tolerance >= S

\* The asks of the side a returned temporal opportunity buys.
TargetAsks ==
    IF call.args[3].direction = "UP" THEN call.args[1].asks
    ELSE call.args[2].asks

C15_FilledReachedSize ==
    /\ Returned("check_pure_arbitrage") =>
          LET up == compute_buy_fill(call.args[1].asks, pure_arb_order_size)
              down == compute_buy_fill(call.args[2].asks,
                                       pure_arb_order_size)
          IN  /\ up = NoFill \/ down = NoFill => call.result = NoOpp
              /\ call.result # NoOpp =>
                    /\ up.filled = pure_arb_order_size
                    /\ down.filled = pure_arb_order_size
    /\ Returned("check_temporal_arbitrage") /\ call.args[3] # NoSignal =>
          LET fill == compute_buy_fill(TargetAsks, temporal_arb_order_size)
          IN  /\ fill = NoFill => call.result = NoOpp
              /\ call.result # NoOpp =>
                    fill.filled = temporal_arb_order_size

\* C15: an opportunity a detector returns is built only from fill estimates
\* whose filled size is at most the tolerance short of the requested order
\* size; when a fill estimate the detector needs is absent (book too
\* shallow, empty book), it returns no opportunity.
C15_OnlyFillsWithinTolerance ==
    /\ Returned("check_pure_arbitrage") =>
          LET up == compute_buy_fill(call.args[1].asks, pure_arb_order_size)
              down == compute_buy_fill(call.args[2].asks,
                                       pure_arb_order_size)
              size == pure_arb_order_size
          IN  /\ up = NoFill \/ down = NoFill => call.result = NoOpp
              /\ ~CanFill(call.args[1].asks, size) => call.result = NoOpp
              /\ ~CanFill(call.args[2].asks, size) => call.result = NoOpp
              /\ call.result # NoOpp =>
                    /\ up.filled + fill_tolerance >= size
                    /\ down.filled + fill_tolerance >= size
                    /\ up.filled = Min(size, Depth(call.args[1].asks))
                    /\ down.filled = Min(size, Depth(call.args[2].asks))
                    /\ call.result.price_up = up.worst
                    /\ call.result.price_down = down.worst
    /\ Returned("check_temporal_arbitrage") /\ call.args[3] # NoSignal =>
          LET fill == compute_buy_fill(TargetAsks, temporal_arb_order_size)
              size == temporal_arb_order_size
          IN  /\ fill = NoFill => call.result = NoOpp
              /\ ~CanFill(TargetAsks, size) => call.result = NoOpp
              /\ call.result # NoOpp =>
                    /\ fill.filled + fill_tolerance >= size
                    /\ fill.filled = Min(size, Depth(TargetAsks))
                    /\ call.result.price = fill.worst
                    /\ call.result.total_investment = fill.cost

\* A confident signal and a cheap best ask, but a book too shallow for the
\* order: no opportunity.
C15_Witness ==
    /\ Returned("check_temporal_arbitrage")
    /\ call.args[3] # NoSignal
    /\ call.args[3].confidence >= temporal_arb_confidence_threshold
    /\ TargetAsks # <<>>
    /\ LowestAsk(TargetAsks) <= temporal_arb_price_threshold
    /\ Depth(TargetAsks) + fill_tolerance < temporal_arb_order_size
    /\ call.result = NoOpp

---------------------------------------------------------------------------
\* Properties of get_multi_timeframe_signal, under SpecLib.

\* The lookback signals of the returned fusion that are present, shortest
\* lookback first, and its window-start signal.
LookbackSignals ==
    SelectSeq(<<get_momentum(call.args[1], 15, call.args[2][1]),
                get_momentum(call.args[1], 30, call.args[2][2]),
                get_momentum(call.args[1], 60, call.args[2][3])>>, Present)

WindowSignal == get_window_momentum(call.args[1], call.args[2][4])

EvaluatedDirections ==
    {LookbackSignals[i].direction : i \in 1..Len(LookbackSignals)}
        \cup (IF Present(WindowSignal) THEN {WindowSignal.direction} ELSE {})

\* C19: get_multi_timeframe_signal returns absent whenever two of the
\* non-absent signals (15 s, 30 s, 60 s lookbacks, window start) disagree in
\* direction; a fused signal is returned only when every non-absent signal
\* has the same direction, and that direction is the fused signal's.
C19_DisagreementIsAbsent ==
    Returned("get_multi_timeframe_signal") =>
        /\ Cardinality(EvaluatedDirections) > 1 => call.result = NoSignal
        /\ call.result # NoSignal =>
              EvaluatedDirections = {call.result.direction}

\* The 15 s lookback points down while the 60 s lookback and the window
\* start point up: nothing is returned.
C19_Witness ==
    /\ Returned("get_multi_timeframe_signal")
    /\ call.result = NoSignal
    /\ Len(LookbackSignals) >= 2
    /\ LookbackSignals[1].window_seconds = 15
    /\ LookbackSignals[1].direction = "DOWN"
    /\ LookbackSignals[Len(LookbackSignals)].window_seconds = 60
    /\ LookbackSignals[Len(LookbackSignals)].direction = "UP"
    /\ Present(WindowSignal)
    /\ WindowSignal.direction = "UP"

\* The weighted sum and the total weight, doubled, when the present lookback
\* signals weigh 1.0, 1.5, 2.0 in their order and the window-start signal 3.
RECURSIVE StatedLookbackSum(_)
StatedLookbackSum(n) ==
    IF n = 0 THEN <<0, 0>>
    ELSE LET rest == StatedLookbackSum(n - 1)
         IN  <<rest[1] + LookbackSignals[n].confidence * (2 + (n - 1)),
               rest[2] + (2 + (n - 1))>>

StatedSum ==
    LET lookbacks == StatedLookbackSum(Len(LookbackSignals))
    IN  IF Present(WindowSignal)
        THEN <<lookbacks[1] + WindowSignal.confidence * 6, lookbacks[2] + 6>>
        ELSE lookbacks

\* C20 as stated: when the evaluated signals agree, the fused confidence is
\* the weighted average in which the lookback signals weigh 1.0, 1.5, 2.0 and
\* the window-start signal, when present, weighs 3; the longer of two present
\* lookbacks never gets the smaller weight.
C20_WeightedAverage ==
    Returned("get_multi_timeframe_signal") /\ call.result # NoSignal =>
        /\ call.result.confidence[1] * StatedSum[2]
               = StatedSum[1] * call.result.confidence[2]
        /\ \A i, j \in 1..Len(LookbackSignals) :
              i < j =>
                  Weight(i, LookbackSignals[i], WindowSignal)
                      <= Weight(j, LookbackSignals[j], WindowSignal)

---------------------------------------------------------------------------
\* Properties of BinancePriceFeed, under SpecFeed.

\* C21 as stated: in every reachable state, whatever the interleaving of
\* recordings and passage of time, the window holds no observation older
\* than now - history_seconds.
C21_NothingOlderThanHorizon ==
    \A i \in 1..Len(price_feed.prices) :
        price_feed.prices[i].timestamp >= now - history_seconds

\* C21: the window is ordered by timestamp, its newest observation is the
\* last recording, and it holds no observation older than history_seconds
\* before the last recording; eviction is from the front.
C21_NothingOlderThanLastRecording ==
    /\ \A i \in 1..Len(price_feed.prices) :
          price_feed.prices[i].timestamp >= price_feed.last_update - history_seconds
    /\ \A i \in 1..(Len(price_feed.prices) - 1) :
          price_feed.prices[i].timestamp <= price_feed.prices[i + 1].timestamp
    /\ Len(price_feed.prices) <= deque_maxlen
    /\ price_feed.prices # <<>> =>
          /\ price_feed.prices[Len(price_feed.prices)].timestamp = price_feed.last_update
          /\ price_feed.prices[Len(price_feed.prices)].price = price_feed.current_price

\* A recording evicted the oldest observation and kept the one exactly at
\* the horizon.
C21_Witness ==
    /\ price_feed.evicted >= 1
    /\ Len(price_feed.prices) >= 2
    /\ price_feed.prices[1].timestamp = price_feed.last_update - history_seconds
    /\ price_feed.last_update = now

\* C22 as stated: while the price_feed runs, every connection loss, protocol error
\* or exception in the streaming loop is followed by the backoff wait before
\* the next connection attempt.
C22_BackoffBeforeReconnect ==
    [][price_feed.pc = "streaming" /\ price_feed'.pc \notin {"streaming",
                                                             "returned"}
           => price_feed'.pc = "backoff"]_vars

---------------------------------------------------------------------------
\* Properties of the RiskManager's snapshot, under SpecStore.

\* C25 as claimed: right after a restart that finds a risk_state.json, the
\* exposure is that of the file, the daily P&L is that of the file when the
\* file is of the same day, and a day whose P&L in the file is below
\* -max_daily_loss is refused whatever the cost.
C25_RestartRestoresSnapshot ==
    (ret.op = "restart" /\ store.exists) =>
        /\ rm.current_exposure = store.current_exposure
        /\ store.daily_pnl_date = today =>
               /\ daily_pnl(rm, today) = store.daily_pnl
               /\ store.daily_pnl < -max_daily_loss =>
                      \A c \in Costs : ~check_can_trade(rm, today, c).ok

\* C26 as claimed: right after a record_settlement the file holds the
\* snapshot of the RiskManager as the settlement left it.
C26_SettlementIsStored ==
    ret.op = "record_settlement" => store = Snapshot(rm)

---------------------------------------------------------------------------
\* Properties of SpendTracker, under SpecTracker.

C28_CalledOncePerRecordAndSettle ==
    /\ tracker.pc # "TypeError"
    /\ tracker.listeners > 0 =>
           Len(tracker.received) = tracker.recorded + tracker.settled

---------------------------------------------------------------------------
\* Properties of BudgetManager, under SpecBudget.

\* The rules whose window holds more than their max_amount at time t.
Breached(b, t) ==
    {i \in 1..Len(b.rules) :
        window_spend(b.tx_history, b.rules[i].window_seconds, t)
            > b.rules[i].max_amount}

\* C29: an on_tx fires one alert for every rule its transaction leaves
\* breached; if one of them has halt_on_breach the manager is halted with a
\* reason naming such a rule, and if none has, the halted state is what it
\* was; a halted manager refuses every amount with that reason, and stays
\* halted through every call but reset_halt, which clears the halt.
C29_HaltOnBreach ==
    [][/\ ret'.op = "on_tx" =>
            LET breached == Breached(budget', now)
                halting == {i \in breached : budget.rules[i].halt_on_breach}
                fired == (Len(budget.alerts) + 1)..Len(budget'.alerts)
            IN  /\ Cardinality(fired) = Cardinality(breached)
                /\ \A i \in breached : \E k \in fired :
                       budget'.alerts[k][1] = budget.rules[i].name
                /\ halting # {} =>
                       /\ budget'.halted
                       /\ \E i \in halting :
                              budget'.halt_reason[1] = budget.rules[i].name
                /\ halting = {} =>
                       /\ budget'.halted = budget.halted
                       /\ budget'.halt_reason = budget.halt_reason
       /\ (budget.halted /\ ret'.op # "reset_halt") => budget'.halted
       /\ ret'.op = "reset_halt" => ~budget'.halted
       /\ budget.halted =>
              \A amount \in 0..MaxAmount :
                  LET res == check_can_spend(budget, amount, now) IN
                  ~res.ok /\ res.reason = <<"Agent halted", budget.halt_reason>>
       /\ (ret'.op = "check_can_spend" /\ budget.halted) => ~ret'.ok]_vars

\* A halted manager has refused to spend nothing; the rule that halted it is
\* not breached any more, and a rule without halt_on_breach has alerted.
C29_Witness ==
    /\ budget.halted
    /\ ret.op = "check_can_spend"
    /\ ret.reason = <<"Agent halted", budget.halt_reason>>
    /\ \E i \in 1..Len(budget.rules) :
           /\ budget.rules[i].name = budget.halt_reason[1]
           /\ i \notin Breached(budget, now)
    /\ \E i \in 1..Len(budget.rules), k \in 1..Len(budget.alerts) :
           /\ ~budget.rules[i].halt_on_breach
           /\ budget.alerts[k][1] = budget.rules[i].name

---------------------------------------------------------------------------
\* Properties of PolymarketArbBot.run, under SpecRun.

\* The events of a pass the loop has to survive.
SurvivedEvents ==
    {"io_failure", "insufficient_liquidity", "risk_refused",
     "execution_fault", "halted"}

\* C23: the loop stops only on cancellation or interrupt; a pass in which a
\* failed fetch, a lack of liquidity, a risk refusal, an execution fault or
\* the halted state occurred ends in a sleep, and from a sleep the loop goes
\* to its next pass unless it is cancelled or interrupted; a failure that
\* scan_once raises and the halted state are logged by the loop.
C23_LoopSurvives ==
    [][/\ loop'.pc = "stopped" => loop'.cause \in {"cancelled", "interrupt"}
       /\ (loop'.event \in SurvivedEvents /\ loop'.pc # "stopped") =>
              loop'.pc \in {"retry_sleep", "halted_sleep", "scan_sleep"}
       /\ (loop.pc = "scanning" /\ loop'.event = "io_failure"
             /\ loop'.pc # "stopped") => loop'.logged
       /\ loop'.event = "halted" => loop'.logged
       /\ (loop.pc \in {"retry_sleep", "halted_sleep", "scan_sleep"}
             /\ loop'.pc \notin {loop.pc, "stopped"}) =>
              (loop'.pc = "market_check" /\ loop'.cycles = loop.cycles + 1)
      ]_vars

\* The loop is in a later pass after a pass whose scan raised, and it is
\* sleeping after finding the RiskManager halted.
C23_Witness ==
    /\ loop.cycles > 1
    /\ loop.scan_errors > 0
    /\ loop.pc = "halted_sleep"
    /\ loop.event = "halted"
    /\ loop.cause = "none"

---------------------------------------------------------------------------
\* Further properties of BudgetManager, under SpecBudget.

\* The transactions of the history inside a window at time t.
WindowContents(b, window_seconds, t) ==
    {k \in 1..Len(b.tx_history) : InWindow(b.tx_history[k], window_seconds, t)}

\* Between t1 and t2 no transaction leaves the window of any rule.
SameWindows(b, t1, t2) ==
    \A i \in 1..Len(b.rules) :
        WindowContents(b, b.rules[i].window_seconds, t1)
            = WindowContents(b, b.rules[i].window_seconds, t2)

\* C39: if check_can_spend(a) answers OK now, an on_tx for a transaction of
\* amount a that comes next, created and handed over at a time by which no
\* transaction has left a window, fires no alert and does not halt.
C39_PreCheckAgreesWithOnTx ==
    \A amount \in 0..MaxAmount, t2 \in now..MaxTime,
       created_at \in now..MaxTime :
        (/\ check_can_spend(budget, amount, now).ok
         /\ created_at <= t2
         /\ SameWindows(budget, now, t2)) =>
            LET tx == [amount |-> amount, created_at |-> created_at]
                b == on_tx(budget, tx, t2)
            IN  b.alerts = budget.alerts /\ ~b.halted

\* A spend was pre-checked and found OK although it takes a rule exactly to
\* its max_amount, with transactions already in the history.
C39_Witness ==
    /\ ret.op = "check_can_spend"
    /\ ret.ok
    /\ budget.tx_history # <<>>
    /\ \E amount \in 1..MaxAmount, i \in 1..Len(budget.rules) :
           /\ check_can_spend(budget, amount, now).ok
           /\ window_spend(budget.tx_history, budget.rules[i].window_seconds,
                           now) + amount = budget.rules[i].max_amount

---------------------------------------------------------------------------
\* Properties of SpendTracker with reused tx_ids and a file, under
\* SpecReload.

\* The tx_ids of the lines of the file: every id recorded so far.
DiskIds(t) == {t.disk[k].tx_id : k \in 1..Len(t.disk)}

\* C40 as claimed: every id of the insertion-order list is a key of the
\* transaction map, and count is the smaller of the number of distinct
\* tx_ids recorded and max_history.
C40_OrderAndMapAgree ==
    tracker.pc = "ready" =>
        /\ \A k \in 1..Len(tracker.ordered_ids) :
               tracker.ordered_ids[k] \in DOMAIN tracker.txs
        /\ count(tracker) =
               Min(Cardinality(DiskIds(tracker)), tracker.max_history)

---------------------------------------------------------------------------
\* Further properties of get_multi_timeframe_signal, under SpecLib.

\* C37 as stated: in a fusion that returned a signal every lookback signal
\* weighs 1.0, 1.5 or 2.0 by its position, whatever its fields, and only the
\* window-start signal weighs 3.
C37_DominantWeightForWindowOnly ==
    Returned("get_multi_timeframe_signal") /\ call.result # NoSignal =>
        \A i \in 1..Len(LookbackSignals) :
            Weight(i, LookbackSignals[i], WindowSignal) = 2 + (i - 1)

---------------------------------------------------------------------------
\* Further properties of the orchestrator, under SpecBot.

\* C38: whatever the scan cycles did, in simulation or live, the exposure is
\* at most max_position_size and no recorded trade cost more than
\* max_single_bet.
C38_ExposureAndBetWithinLimits ==
    /\ rm.current_exposure <= max_position_size
    /\ \A i \in 1..Len(rm.trades) : rm.trades[i].cost <= max_single_bet

\* Two trades are recorded, the second one in live mode, and the exposure
\* stands exactly at max_position_size.
C38_Witness ==
    /\ ~dry_run
    /\ Len(rm.trades) >= 2
    /\ rm.trades[Len(rm.trades)].status = "open"
    /\ rm.current_exposure = max_position_size


\* C32 as stated: the cooldown is measured from the last trade. An
\* opportunity is skipped by the cooldown test only under a _last_trade_ts
\* that a submitted trade stands behind; an opportunity the risk check
\* refused, or the simulated balance did not cover, starts no cooldown.
C32_CooldownOnlyAfterTrade ==
    (\/ bot.pc = "pure_done" /\ cycle.pure = "cooldown"
     \/ bot.pc = "temporal_done" /\ cycle.temporal = "cooldown") =>
        cycle.submitted


\* The partial-fill path of execute_pure_arbitrage was taken and has run to
\* its end: both legs were polled and not both reported filled.
PartialFillDone ==
    /\ bot.pc = "pure_done"
    /\ legs.up.polled /\ legs.down.polled
    /\ ~(legs.up.filled /\ legs.down.filled)

\* C35: in the partial-fill path exactly one cancel_orders call is made for
\* every leg not reported filled, never a second one, and whether or not
\* that call raised, the unwind loop fetched the book of the filled leg.
C35_CancelOnceThenUnwind ==
    \A leg \in {"up", "down"} :
        /\ legs[leg].cancels <= 1
        /\ PartialFillDone =>
              /\ ~legs[leg].filled => legs[leg].cancels = 1
              /\ legs[leg].filled => legs[leg].book_fetched

\* The cancel call raised, and the filled leg was unwound all the same.
C35_Witness ==
    /\ PartialFillDone
    /\ legs.up.cancel_raised
    /\ legs.up.filled /\ ~legs.down.filled
    /\ legs.down.cancels = 1
    /\ legs.up.unwind # <<>>


---------------------------------------------------------------------------
\* Termination of start_websocket, under SpecFeedFair.

---------------------------------------------------------------------------
\* The ingestion task and the polling of an order, under SpecTasks.

\* C34 as stated: a tick the stream delivered while wait_for_terminal_order
\* was polling, before one of its sleeps, has been appended to the window
\* by the time the polling finishes.
C34_TickAppendedWhilePolling ==
    wait.pc = "returned" =>
        \A i \in 1..Len(price_feed.inbox) :
            price_feed.inbox[i].sleeps >= Sleeps(wait)


---------------------------------------------------------------------------
\* Markets and the window start in PolymarketArbBot.run, under SpecRun.

\* C31, as the code has it: set_window_start is called when a market is
\* loaded and at no other time, once if the feed has a price then and not
\* at all if it has none; the reference in force is thus the one pinned at
\* the loading of the current market, or none, never the one of an earlier
\* market.
C31_PinnedOnceIfPriced ==
    [][/\ loop'.market # loop.market =>
             /\ loop'.market = loop.market + 1
             /\ loop'.marks = IF loop.has_price THEN 1 ELSE 0
       /\ loop'.market = loop.market => loop'.marks = loop.marks
       /\ loop'.marks <= 1
       /\ loop'.window_epoch \in {0, loop'.market}
       /\ loop'.marks = 1 <=>
             (loop'.market # 0 /\ loop'.window_epoch = loop'.market)
      ]_vars

\* The second market is being scanned with the reference pinned at its
\* loading.
C31_Witness ==
    /\ loop.pc = "scanning"
    /\ loop.market = 2
    /\ loop.marks = 1
    /\ loop.window_epoch = 2

\* C31 as stated: every market loaded has had exactly one set_window_start
\* call.
C31_PinnedOncePerEpoch ==
    loop.market # 0 => (loop.marks = 1 /\ loop.window_epoch = loop.market)

\* C33 as stated, in the form a finite run refutes: after the search for
\* the first market failed, a pass of the main loop does not end with no
\* market loaded and no new search made.
C33_RetriesDiscovery ==
    (loop.pc = "scan_sleep" /\ loop.market = 0) => loop.searched

=============================================================================
